---- MODULE Spec2Model ----
(***************************************************************************)
(* Verification model of the llm-council backend.                          *)
(*                                                                         *)
(* Three specifications share this module:                                 *)
(*   SpecStream   the streaming bridge of backend/main.py: the registry    *)
(*                ACTIVE_STREAMS, the stream_worker task of every run, its *)
(*                event queue and its event_generator consumer;            *)
(*   SpecStage    one member stage (_collect_stage_responses and           *)
(*                collect_rankings of backend/council.py) at the           *)
(*                granularity of single member invocations;                *)
(*   SpecCouncil  run_full_council of backend/council.py, stage by stage,  *)
(*                interleaved with updates of the live settings.           *)
(* The variables of the specifications that are not running stay parked.   *)
(***************************************************************************)
EXTENDS Integers, Sequences, FiniteSets, TLC

VARIABLES
    \* ---- streaming bridge (backend/main.py) ----
    ACTIVE_STREAMS,   \* registry entry of the conversation key: 0 or a run
    task,             \* position of every run's stream_worker task
    stage_index,      \* stage the worker's run_full_council is at
    deltas,           \* deltas forwarded in the current stage / reply
    run_kind,         \* "first", "reconvene" (force_council) or "speaker"
    cancel_event,     \* asyncio.Event of every run
    must_cancel,      \* task.cancel() requested and not yet delivered
    event_queue,      \* every event the run has put on its queue, in order
    cancel_at,        \* events the run had put when its cancellation was requested (-1: none)
    generator,        \* position of every run's event_generator
    \* ---- one member stage (backend/council.py) ----
    stage_cfg,        \* members, execution mode and kind of the stage
    returned,         \* parallel mode: (member index, response) in completion order
    stage_pc,         \* position of the stage coroutine
    pending,          \* parallel mode: members whose invocation is in flight
    responses,        \* transport responses collected so far, by member index
    running_messages, \* sequential mode: the running message list
    calls,            \* every invocation made: member index and message list
    results,          \* the formatted stage result
    \* ---- pipeline (backend/council.py run_full_council) ----
    SETTINGS,         \* the live settings (_SETTINGS of council_settings.py)
    settings,         \* the settings the run was started with
    council_pc,       \* position of run_full_council
    index,            \* index of the stage being executed
    last_responses,   \* rolling context: latest responses-kind result
    last_rankings,    \* rolling context: latest rankings-kind result
    stages_output,    \* stage entries produced so far
    handed,           \* what every stage was handed / read when it started
    invoked,          \* member invocations made per stage
    timeline,         \* hook calls and member invocations of the run, in order
    \* ---- ranking functions (backend/council.py) ----
    rank_fn,          \* the function called
    rank_pc,          \* "call" before the function has run, "returned" after
    responses_in,     \* collect_rankings: the responses results it is given
    label_to_model,   \* the label map (built, or given to the aggregation)
    ranking_text,     \* parse_ranking_from_text: the rater's text
    parsed_ranking,   \* parse_ranking_from_text: the labels returned
    rankings_results, \* calculate_aggregate_rankings: the raters' entries
    aggregate,        \* calculate_aggregate_rankings: the list returned
    \* ---- functions over stored data (backend/council.py, backend/main.py) ----
    call_fn,          \* the function called
    call_pc,          \* "call" before the function has run, "returned" after
    call_args,        \* its arguments
    call_ret,         \* what it returned
    \* ---- one stored conversation and the requests on it (backend/main.py) ----
    conv_mode,        \* "chat" or "council"
    conv_messages,    \* the conversation's message rows, oldest first
    conv_op,          \* "idle", or the request in flight: "send" and "retry"
                      \* await the model, "created" is a stream_worker task
                      \* that has not run yet, "stream" one awaiting the model
    conv_branch,      \* reply the request produces: "chat", "council", "speaker"
    conv_response,    \* the last response or terminal event
    conv_requests,    \* requests received so far
    settings_json,    \* the council_settings row of the database, <<>> if none
    settings_cache,   \* _SETTINGS, <<>> while None
    uuid_count,       \* ids uuid4 has minted
    settings_op       \* the operation that last produced the stored settings

streamVars == <<ACTIVE_STREAMS, task, stage_index, deltas, run_kind, cancel_event,
                must_cancel, event_queue, cancel_at, generator>>
stageVars == <<stage_cfg, returned, stage_pc, pending, responses,
               running_messages, calls, results>>
councilVars == <<SETTINGS, settings, council_pc, index, last_responses,
                 last_rankings, stages_output, handed, invoked, timeline>>
rankVars == <<rank_fn, rank_pc, responses_in, label_to_model, ranking_text,
              parsed_ranking, rankings_results, aggregate>>
callVars == <<call_fn, call_pc, call_args, call_ret>>
convVars == <<conv_mode, conv_messages, conv_op, conv_branch, conv_response,
              conv_requests>>
settingsVars == <<settings_json, settings_cache, uuid_count, settings_op>>
vars == <<streamVars, stageVars, councilVars, rankVars, callVars, convVars,
          settingsVars>>

(***************************************************************************)
(* Bounds.                                                                 *)
(***************************************************************************)
MaxRuns == 2        \* streaming runs started under the conversation key
NumStages == 2      \* stages of the pipeline a streaming run executes
MaxDeltas == 1      \* text chunks forwarded per stage / per speaker reply
MaxMembers == 3     \* members configured for one stage
MaxStages == 4      \* stages of a configured pipeline
MaxRunDeltas == 1   \* text chunks members stream during one pipeline run

Runs == 1..MaxRuns

(***************************************************************************)
(* Parked values of the sub-models that are not running.                   *)
(***************************************************************************)
StreamParked ==
    /\ ACTIVE_STREAMS = 0
    /\ task = <<>> /\ stage_index = <<>> /\ deltas = <<>> /\ run_kind = <<>>
    /\ cancel_event = <<>> /\ must_cancel = <<>> /\ event_queue = <<>>
    /\ cancel_at = <<>> /\ generator = <<>>

StageParked ==
    /\ stage_cfg = <<>> /\ returned = <<>> /\ stage_pc = "parked"
    /\ pending = {} /\ responses = <<>> /\ running_messages = <<>>
    /\ calls = <<>> /\ results = <<>>

CouncilParked ==
    /\ SETTINGS = <<>> /\ settings = <<>> /\ council_pc = "parked"
    /\ index = 0 /\ last_responses = <<>> /\ last_rankings = <<>>
    /\ stages_output = <<>> /\ handed = <<>> /\ invoked = <<>>
    /\ timeline = <<>>

RankParked ==
    /\ rank_fn = "none" /\ rank_pc = "parked"
    /\ responses_in = <<>> /\ label_to_model = <<>>
    /\ ranking_text = <<>> /\ parsed_ranking = <<>>
    /\ rankings_results = <<>> /\ aggregate = <<>>

CallParked ==
    /\ call_fn = "none" /\ call_pc = "parked"
    /\ call_args = <<>> /\ call_ret = <<>>

ConvParked ==
    /\ conv_mode = "none" /\ conv_messages = <<>>
    /\ conv_op = "parked" /\ conv_branch = "none"
    /\ conv_response = <<>> /\ conv_requests = 0

SettingsParked ==
    /\ settings_json = <<>> /\ settings_cache = <<>>
    /\ uuid_count = 0 /\ settings_op = "parked"

(***************************************************************************)
(* STREAMING BRIDGE                                                        *)
(***************************************************************************)
TerminalTypes == {"complete", "error", "cancelled"}

Event(type, stage) == [type |-> type, stage |-> stage]

\* asyncio.Queue.put on the unbounded queue: appends and never suspends.
Put(q, r, ev) == [q EXCEPT ![r] = Append(@, ev)]

\* Positions at which the worker coroutine is suspended on an await.
Suspended == {"members", "title", "speaker"}

\* task.cancel(): a finished task ignores it; otherwise CancelledError is
\* thrown into the coroutine at its next step.
TaskCancel(mc, r) == IF task[r] = "done" THEN mc ELSE [mc EXCEPT ![r] = TRUE]

\* finally-block of stream_worker: the registry entry is removed only when
\* it belongs to the finishing task.
WorkerFinally(r) == IF ACTIVE_STREAMS = r THEN 0 ELSE ACTIVE_STREAMS

\* cancel_active_stream (and the body of cancel_message_stream): the entry
\* popped from the registry gets its flag set and its task cancelled.
cancel_active_stream(cur) ==
    /\ cancel_event' = IF cur # 0 THEN [cancel_event EXCEPT ![cur] = TRUE]
                       ELSE cancel_event
    /\ must_cancel' = IF cur # 0 THEN TaskCancel(must_cancel, cur)
                      ELSE must_cancel
    /\ cancel_at' = IF cur # 0 /\ cancel_at[cur] < 0
                    THEN [cancel_at EXCEPT ![cur] = Len(event_queue[cur])]
                    ELSE cancel_at

StreamInit ==
    /\ ACTIVE_STREAMS = 0
    /\ task = [r \in Runs |-> "none"]
    /\ stage_index = [r \in Runs |-> 0]
    /\ deltas = [r \in Runs |-> 0]
    /\ run_kind = [r \in Runs |-> "none"]
    /\ cancel_event = [r \in Runs |-> FALSE]
    /\ must_cancel = [r \in Runs |-> FALSE]
    /\ event_queue = [r \in Runs |-> <<>>]
    /\ cancel_at = [r \in Runs |-> -1]
    /\ generator = [r \in Runs |-> "none"]
    /\ StageParked /\ CouncilParked /\ RankParked /\ CallParked /\ ConvParked
    /\ SettingsParked

\* send_message_stream, from cancel_active_stream() to the return of the
\* StreamingResponse: no await in this stretch suspends.
send_message_stream(r, kind) ==
    /\ task[r] = "none"
    /\ \A q \in Runs : q < r => task[q] # "none"
    /\ cancel_active_stream(ACTIVE_STREAMS)
    /\ task' = [task EXCEPT ![r] = "created"]
    /\ run_kind' = [run_kind EXCEPT ![r] = kind]
    /\ generator' = [generator EXCEPT ![r] = "check"]
    /\ ACTIVE_STREAMS' = r
    /\ UNCHANGED <<stage_index, deltas, event_queue>>
    /\ UNCHANGED <<stageVars, councilVars, rankVars, callVars, convVars, settingsVars>>

\* cancel_message_stream
cancel_message_stream ==
    /\ \E r \in Runs : task[r] # "none"
    /\ cancel_active_stream(ACTIVE_STREAMS)
    /\ ACTIVE_STREAMS' = 0
    /\ UNCHANGED <<task, stage_index, deltas, run_kind, event_queue, generator>>
    /\ UNCHANGED <<stageVars, councilVars, rankVars, callVars, convVars, settingsVars>>

\* First step of a task that was cancelled before it ever ran: asyncio throws
\* CancelledError into the coroutine that has not started, so neither the
\* try block nor its except / finally handlers execute.
WorkerNeverRuns(r) ==
    /\ task[r] = "created" /\ must_cancel[r]
    /\ task' = [task EXCEPT ![r] = "done"]
    /\ must_cancel' = [must_cancel EXCEPT ![r] = FALSE]
    /\ UNCHANGED <<ACTIVE_STREAMS, stage_index, deltas, run_kind, cancel_event,
                   event_queue, generator>>
    /\ UNCHANGED <<cancel_at, stageVars, councilVars, rankVars, callVars, convVars, settingsVars>>

\* stream_worker from its first line to its first suspension.  Council runs
\* store the user message, take the settings snapshot, call on_stage_start of
\* stage 0 and suspend on the member invocations; a follow-up run suspends on
\* the speaker invocation.
WorkerBegin(r) ==
    /\ task[r] = "created" /\ ~must_cancel[r]
    /\ IF cancel_event[r]
       THEN /\ event_queue' = Put(event_queue, r, Event("cancelled", 0))
            /\ task' = [task EXCEPT ![r] = "done"]
            /\ ACTIVE_STREAMS' = WorkerFinally(r)
       ELSE IF run_kind[r] = "speaker"
       THEN /\ task' = [task EXCEPT ![r] = "speaker"]
            /\ UNCHANGED <<event_queue, ACTIVE_STREAMS>>
       ELSE /\ event_queue' = Put(event_queue, r, Event("stage_start", 0))
            /\ task' = [task EXCEPT ![r] = "members"]
            /\ UNCHANGED ACTIVE_STREAMS
    /\ UNCHANGED <<stage_index, deltas, run_kind, cancel_event, must_cancel,
                   generator>>
    /\ UNCHANGED <<cancel_at, stageVars, councilVars, rankVars, callVars, convVars, settingsVars>>

\* except Exception: a storage call of the worker raises; the error event is
\* put and the finally block runs.
WorkerError(r) ==
    /\ task[r] \in {"created", "title"} /\ ~must_cancel[r] /\ ~cancel_event[r]
    /\ event_queue' = Put(event_queue, r, Event("error", 0))
    /\ task' = [task EXCEPT ![r] = "done"]
    /\ ACTIVE_STREAMS' = WorkerFinally(r)
    /\ UNCHANGED <<stage_index, deltas, run_kind, cancel_event, must_cancel,
                   generator>>
    /\ UNCHANGED <<cancel_at, stageVars, councilVars, rankVars, callVars, convVars, settingsVars>>

\* A hook found cancel_event set and raised CancelledError itself: the worker
\* enters its except handler exactly as when the task is cancelled.
EnterCancelHandler(r) ==
    /\ task' = [task EXCEPT ![r] = "shield"]
    /\ must_cancel' = [must_cancel EXCEPT ![r] = FALSE]

\* on_stage_delta: a chunk of a member of the current stage.
on_stage_delta(r) ==
    /\ task[r] = "members" /\ ~must_cancel[r]
    /\ deltas[r] < MaxDeltas
    /\ IF cancel_event[r]
       THEN /\ EnterCancelHandler(r)
            /\ UNCHANGED <<event_queue, deltas>>
       ELSE /\ event_queue' = Put(event_queue, r,
                                  Event("stage_member_delta", stage_index[r]))
            /\ deltas' = [deltas EXCEPT ![r] = @ + 1]
            /\ UNCHANGED <<task, must_cancel>>
    /\ UNCHANGED <<ACTIVE_STREAMS, stage_index, run_kind, cancel_event,
                   generator>>
    /\ UNCHANGED <<cancel_at, stageVars, councilVars, rankVars, callVars, convVars, settingsVars>>

\* The invocations of the current stage have all returned: on_stage_complete
\* (put first, flag checked after), then either on_stage_start of the next
\* stage (flag checked first) or the end of run_full_council.
StageBoundary(r) ==
    /\ task[r] = "members" /\ ~must_cancel[r]
    /\ LET k == stage_index[r]
           q1 == Put(event_queue, r, Event("stage_complete", k))
       IN IF cancel_event[r]
          THEN /\ event_queue' = q1
               /\ EnterCancelHandler(r)
               /\ UNCHANGED <<stage_index, deltas, ACTIVE_STREAMS>>
          ELSE IF k + 1 < NumStages
          THEN /\ event_queue' = Put(q1, r, Event("stage_start", k + 1))
               /\ stage_index' = [stage_index EXCEPT ![r] = k + 1]
               /\ deltas' = [deltas EXCEPT ![r] = 0]
               /\ UNCHANGED <<task, must_cancel, ACTIVE_STREAMS>>
          ELSE IF run_kind[r] = "first"
          THEN /\ event_queue' = q1
               /\ task' = [task EXCEPT ![r] = "title"]
               /\ UNCHANGED <<stage_index, deltas, must_cancel, ACTIVE_STREAMS>>
          ELSE /\ event_queue' = Put(q1, r, Event("complete", 0))
               /\ task' = [task EXCEPT ![r] = "done"]
               /\ ACTIVE_STREAMS' = WorkerFinally(r)
               /\ UNCHANGED <<stage_index, deltas, must_cancel>>
    /\ UNCHANGED <<run_kind, cancel_event, generator>>
    /\ UNCHANGED <<cancel_at, stageVars, councilVars, rankVars, callVars, convVars, settingsVars>>

\* title_task has finished: title_complete, the assistant message is stored,
\* complete.
TitleDone(r) ==
    /\ task[r] = "title" /\ ~must_cancel[r]
    /\ event_queue' = Put(Put(event_queue, r, Event("title_complete", 0)),
                          r, Event("complete", 0))
    /\ task' = [task EXCEPT ![r] = "done"]
    /\ ACTIVE_STREAMS' = WorkerFinally(r)
    /\ UNCHANGED <<stage_index, deltas, run_kind, cancel_event, must_cancel,
                   generator>>
    /\ UNCHANGED <<cancel_at, stageVars, councilVars, rankVars, callVars, convVars, settingsVars>>

\* on_speaker_delta: a chunk of the speaker's reply.
on_speaker_delta(r) ==
    /\ task[r] = "speaker" /\ ~must_cancel[r]
    /\ deltas[r] < MaxDeltas
    /\ IF cancel_event[r]
       THEN /\ EnterCancelHandler(r)
            /\ UNCHANGED <<event_queue, deltas>>
       ELSE /\ event_queue' = Put(event_queue, r, Event("speaker_delta", 0))
            /\ deltas' = [deltas EXCEPT ![r] = @ + 1]
            /\ UNCHANGED <<task, must_cancel>>
    /\ UNCHANGED <<ACTIVE_STREAMS, stage_index, run_kind, cancel_event,
                   generator>>
    /\ UNCHANGED <<cancel_at, stageVars, councilVars, rankVars, callVars, convVars, settingsVars>>

\* query_council_speaker has returned: the reply is stored, speaker_complete
\* and complete are put.
SpeakerDone(r) ==
    /\ task[r] = "speaker" /\ ~must_cancel[r]
    /\ event_queue' = Put(Put(event_queue, r, Event("speaker_complete", 0)),
                          r, Event("complete", 0))
    /\ task' = [task EXCEPT ![r] = "done"]
    /\ ACTIVE_STREAMS' = WorkerFinally(r)
    /\ UNCHANGED <<stage_index, deltas, run_kind, cancel_event, must_cancel,
                   generator>>
    /\ UNCHANGED <<cancel_at, stageVars, councilVars, rankVars, callVars, convVars, settingsVars>>

\* The pending task.cancel() is delivered at the await the worker is
\* suspended on: except CancelledError starts the shielded put.
WorkerCancelled(r) ==
    /\ task[r] \in Suspended /\ must_cancel[r]
    /\ EnterCancelHandler(r)
    /\ UNCHANGED <<ACTIVE_STREAMS, stage_index, deltas, run_kind, cancel_event,
                   event_queue, generator>>
    /\ UNCHANGED <<cancel_at, stageVars, councilVars, rankVars, callVars, convVars, settingsVars>>

\* The shielded put runs as a task of its own.
ShieldedPut(r) ==
    /\ task[r] = "shield"
    /\ event_queue' = Put(event_queue, r, Event("cancelled", 0))
    /\ task' = [task EXCEPT ![r] = "reraise"]
    /\ UNCHANGED <<ACTIVE_STREAMS, stage_index, deltas, run_kind, cancel_event,
                   must_cancel, generator>>
    /\ UNCHANGED <<cancel_at, stageVars, councilVars, rankVars, callVars, convVars, settingsVars>>

\* The worker resumes after the shield, re-raises and runs its finally block.
WorkerReraise(r) ==
    /\ task[r] = "reraise"
    /\ task' = [task EXCEPT ![r] = "done"]
    /\ must_cancel' = [must_cancel EXCEPT ![r] = FALSE]
    /\ ACTIVE_STREAMS' = WorkerFinally(r)
    /\ UNCHANGED <<stage_index, deltas, run_kind, cancel_event, event_queue,
                   generator>>
    /\ UNCHANGED <<cancel_at, stageVars, councilVars, rankVars, callVars, convVars, settingsVars>>

\* cleanup_active_stream, the finally block of event_generator: pops whatever
\* entry the key holds; the popped task is cancelled only if its flag is set.
cleanup_active_stream(reg, mc) ==
    IF reg # 0 /\ task[reg] # "done" /\ cancel_event[reg]
    THEN [mc EXCEPT ![reg] = TRUE] ELSE mc

\* event_generator at the top of its loop: the client is gone, so
\* cancel_active_stream() runs, the loop breaks and the finally block runs.
GeneratorDisconnected(r) ==
    /\ generator[r] = "check"
    /\ cancel_active_stream(ACTIVE_STREAMS)   \* the cleanup that follows finds no entry
    /\ ACTIVE_STREAMS' = 0
    /\ generator' = [generator EXCEPT ![r] = "closed"]
    /\ UNCHANGED <<task, stage_index, deltas, run_kind, event_queue>>
    /\ UNCHANGED <<stageVars, councilVars, rankVars, callVars, convVars, settingsVars>>

\* event_generator has taken the events up to the run's terminal event and
\* yielded them (yielding a non-terminal event changes nothing but the
\* client's view); the terminal event ends the loop and the finally block
\* runs.
GeneratorGet(r) ==
    /\ generator[r] = "check"
    /\ \E i \in 1..Len(event_queue[r]) : event_queue[r][i].type \in TerminalTypes
    /\ generator' = [generator EXCEPT ![r] = "closed"]
    /\ must_cancel' = cleanup_active_stream(ACTIVE_STREAMS, must_cancel)
    /\ ACTIVE_STREAMS' = 0
    /\ UNCHANGED <<task, stage_index, deltas, run_kind, cancel_event, event_queue>>
    /\ UNCHANGED <<cancel_at, stageVars, councilVars, rankVars, callVars, convVars, settingsVars>>

RunKinds == {"first", "reconvene", "speaker"}

StreamNext ==
    \/ \E r \in Runs, kind \in RunKinds : send_message_stream(r, kind)
    \/ cancel_message_stream
    \/ \E r \in Runs : WorkerNeverRuns(r)
    \/ \E r \in Runs : WorkerBegin(r)
    \/ \E r \in Runs : WorkerError(r)
    \/ \E r \in Runs : on_stage_delta(r)
    \/ \E r \in Runs : StageBoundary(r)
    \/ \E r \in Runs : TitleDone(r)
    \/ \E r \in Runs : on_speaker_delta(r)
    \/ \E r \in Runs : SpeakerDone(r)
    \/ \E r \in Runs : WorkerCancelled(r)
    \/ \E r \in Runs : ShieldedPut(r)
    \/ \E r \in Runs : WorkerReraise(r)
    \/ \E r \in Runs : GeneratorDisconnected(r)
    \/ \E r \in Runs : GeneratorGet(r)

SpecStream == StreamInit /\ [][StreamNext]_vars

(***************************************************************************)
(* Claims about the streaming bridge.                                      *)
(***************************************************************************)
Started == {r \in Runs : task[r] # "none"}

TerminalCount(r) ==
    Cardinality({i \in 1..Len(event_queue[r]) : event_queue[r][i].type \in TerminalTypes})

EventsAfterCancel(r) ==
    SubSeq(event_queue[r], cancel_at[r] + 1, Len(event_queue[r]))

\* C1: every streaming run enqueues exactly one terminal event (complete,
\* error or cancelled): a run whose worker has finished has put exactly one,
\* and at no moment has a run put two or put anything after its terminal
\* event.
C1_ExactlyOneTerminalEvent ==
    \A r \in Started :
        /\ TerminalCount(r) <= 1
        /\ \A i \in 1..(Len(event_queue[r]) - 1) :
               event_queue[r][i].type \notin TerminalTypes
        /\ task[r] = "done" => TerminalCount(r) = 1

\* C2: at every moment at most one run of the conversation key has a worker
\* task that has not finished.
C2_AtMostOneActiveRun ==
    Cardinality({r \in Started : task[r] # "done"}) <= 1

\* C3: once the cancellation of a run has been requested the run puts no
\* further non-terminal event, and its only later event is a single
\* cancelled (present once the worker has finished).
C3_OnlyCancelledAfterCancel ==
    \A r \in Started :
        cancel_at[r] >= 0 =>
            /\ EventsAfterCancel(r) \in {<<>>, <<Event("cancelled", 0)>>}
            /\ task[r] = "done" => EventsAfterCancel(r) = <<Event("cancelled", 0)>>

\* The part of C3 that the code keeps: nothing but cancelled is put after the
\* request.
NothingButCancelledAfterCancel ==
    \A r \in Started :
        cancel_at[r] >= 0 =>
            EventsAfterCancel(r) \in {<<>>, <<Event("cancelled", 0)>>}

\* A registered entry never has its flag set, so the task.cancel() of
\* cleanup_active_stream never runs and a task is cancelled at most once.
RegisteredEntryNotCancelled ==
    ACTIVE_STREAMS # 0 => ~cancel_event[ACTIVE_STREAMS] /\ task[ACTIVE_STREAMS] # "done"

(***************************************************************************)
(* ONE MEMBER STAGE                                                        *)
(*                                                                         *)
(* _collect_stage_responses (kind "responses") and the invocation part of  *)
(* collect_rankings (kind "rankings").  The transport (query_model /       *)
(* query_model_stream) returns a dict per invocation and never raises.     *)
(***************************************************************************)
MemberIds == 1..MaxMembers

AliasOf(id) == <<"Alpha", "Beta", "Gamma", "Delta", "Epsilon">>[id]
ModelOf(id) == <<"model-1", "model-2", "model-3", "model-4", "model-5">>[id]
TextOf(id) == <<"text-1", "text-2", "text-3", "text-4", "text-5">>[id]

Member(id) == [id |-> id, alias |-> AliasOf(id), model_id |-> ModelOf(id)]

\* What one invocation can return: full text, text cut by a mid-stream error
\* (partial), an error without text (also a timeout), or no text at all.
Outcomes == {"ok", "partial", "error", "empty"}

ResponseWith(text, out) ==
    CASE out = "ok"      -> [content |-> text, error |-> "", partial |-> FALSE]
      [] out = "partial" -> [content |-> text, error |-> "stream broke", partial |-> TRUE]
      [] out = "error"   -> [content |-> "", error |-> "request failed", partial |-> FALSE]
      [] OTHER           -> [content |-> "", error |-> "", partial |-> FALSE]

TransportResponse(id, out) == ResponseWith(TextOf(id), out)

\* Stage configurations: every ordered choice of distinct members.
RECURSIVE InjectiveSeqs(_, _)
InjectiveSeqs(S, n) ==
    IF n = 0 THEN {<<>>}
    ELSE {<<>>} \cup {<<x>> \o t : x \in S, t \in InjectiveSeqs(S, n - 1)}

MemberLists ==
    {[i \in 1..Len(q) |-> Member(q[i])] :
        q \in {t \in InjectiveSeqs(MemberIds, MaxMembers) :
                   t # <<>> /\ \A i, j \in 1..Len(t) : i # j => t[i] # t[j]}}

Message(role, tag, label, text) ==
    [role |-> role, tag |-> tag, label |-> label, text |-> text]

\* messages = [{"role": "user", "content": prompt_text}]
PromptMessages == <<Message("user", "prompt", "", "")>>

\* member.get("alias", member.get("model_id", "Member"))
MemberLabel(member) == member.alias

\* "Previous member ({label}) response:\n{content}" (ranking: for rankings)
AssistantTurn(member, kind, content) ==
    Message("assistant", IF kind = "rankings" THEN "ranking" ELSE "response",
            MemberLabel(member), content)

\* followup_prompt of the stage kind
FollowupTurn(kind) ==
    Message("user", IF kind = "rankings" THEN "followup-ranking" ELSE "followup-response",
            "", "")

\* Mutant of AppendTurns: the follow-up user turn is forgotten.
AppendTurnsWithoutFollowup(msgs, member, kind, response, i, n) ==
    IF response.content # ""
    THEN msgs \o <<AssistantTurn(member, kind, response.content)>>
    ELSE msgs

\* Mutant of AppendTurns: a failed member leaves a marker turn behind.
AppendTurnsMarksFailure(msgs, member, kind, response, i, n) ==
    IF response.content # ""
    THEN IF i < n
         THEN msgs \o <<AssistantTurn(member, kind, response.content), FollowupTurn(kind)>>
         ELSE msgs \o <<AssistantTurn(member, kind, response.content)>>
    ELSE msgs \o <<AssistantTurn(member, kind, "[FAILED]")>>

\* Mutant of AppendTurns: a failed member leaves the follow-up turn behind.
AppendTurnsFollowupOnFailure(msgs, member, kind, response, i, n) ==
    IF response.content # ""
    THEN IF i < n
         THEN msgs \o <<AssistantTurn(member, kind, response.content), FollowupTurn(kind)>>
         ELSE msgs \o <<AssistantTurn(member, kind, response.content)>>
    ELSE IF i < n THEN msgs \o <<FollowupTurn(kind)>> ELSE msgs

\* Sequential loop body after the await: what the response of the member at
\* position i (1-based) of n adds to running_messages.
AppendTurns(msgs, member, kind, response, i, n) ==
    IF response.content # ""
    THEN IF i < n
         THEN msgs \o <<AssistantTurn(member, kind, response.content), FollowupTurn(kind)>>
         ELSE msgs \o <<AssistantTurn(member, kind, response.content)>>
    ELSE msgs

\* Mutant of Gather: the results in the order of completion.
GatherByCompletion(done, n) == [k \in 1..n |-> done[k].response]

\* asyncio.gather(*tasks): the results in the order of the awaitables, not of
\* their completion.
RECURSIVE Gather(_, _)
Gather(done, n) ==
    IF n = 0 THEN <<>>
    ELSE Append(Gather(done, n - 1),
                done[CHOOSE k \in 1..Len(done) : done[k].member_index = n].response)

\* One entry of the result list of _collect_stage_responses.
FormatResult(member, response) ==
    IF response.content # ""
    THEN [model |-> member.alias, response |-> response.content, status |-> "ok",
          error |-> "",
          stream_error |-> IF response.partial THEN response.error ELSE ""]
    ELSE [model |-> member.alias, response |-> "", status |-> "failed",
          error |-> IF response.error # "" THEN response.error
                    ELSE "No response received.",
          stream_error |-> ""]

\* Mutant of FormatResults: a failed invocation ends the stage's result list.
RECURSIVE FormatResultsAbortOnFailure(_, _)
FormatResultsAbortOnFailure(mems, resps) ==
    IF mems = <<>> \/ resps = <<>> \/ Head(resps).content = "" THEN <<>>
    ELSE <<FormatResult(Head(mems), Head(resps))>>
         \o FormatResultsAbortOnFailure(Tail(mems), Tail(resps))

\* for member, response in zip(members, responses): results.append(...)
FormatResults(mems, resps) ==
    [i \in 1..(IF Len(mems) < Len(resps) THEN Len(mems) ELSE Len(resps)) |->
        FormatResult(mems[i], resps[i])]

\* collect_rankings keeps an entry only for a member that returned text.
RECURSIVE FormatRankings(_, _)
FormatRankings(mems, resps) ==
    IF mems = <<>> \/ resps = <<>> THEN <<>>
    ELSE LET rest == FormatRankings(Tail(mems), Tail(resps))
             member == Head(mems)
             response == Head(resps)
         IN IF response.content # ""
            THEN <<[model |-> member.alias, ranking |-> response.content,
                    stream_error |-> IF response.partial THEN response.error ELSE ""]>>
                 \o rest
            ELSE rest

FormatStage(kind, mems, resps) ==
    IF kind = "rankings" THEN FormatRankings(mems, resps)
    ELSE FormatResults(mems, resps)

Call(i, msgs) == [member_index |-> i, messages |-> msgs]

StageInit ==
    /\ stage_cfg \in [members : MemberLists,
                      execution_mode : {"parallel", "sequential"},
                      kind : {"responses", "rankings"}]
    /\ stage_pc = "start"
    /\ returned = <<>> /\ pending = {} /\ responses = <<>>
    /\ running_messages = <<>> /\ calls = <<>> /\ results = <<>>
    /\ StreamParked /\ CouncilParked /\ RankParked /\ CallParked /\ ConvParked
    /\ SettingsParked

\* The stage up to its first await: the prompt message is built; sequential
\* mode invokes the first member, parallel mode creates every member's task.
StageStart ==
    /\ stage_pc = "start"
    /\ LET n == Len(stage_cfg.members) IN
       IF stage_cfg.execution_mode = "sequential"
       THEN /\ running_messages' = PromptMessages
            /\ calls' = <<Call(1, PromptMessages)>>
            /\ pending' = {}
            /\ stage_pc' = "await"
       ELSE /\ calls' = [i \in 1..n |-> Call(i, PromptMessages)]
            /\ pending' = 1..n
            /\ stage_pc' = "gather"
            /\ UNCHANGED running_messages
    /\ UNCHANGED <<stage_cfg, returned, responses, results>>
    /\ UNCHANGED <<streamVars, councilVars, rankVars, callVars, convVars, settingsVars>>

\* Parallel mode: the invocation of the member at position i returns.
ParallelReturn(i, out) ==
    /\ stage_pc = "gather" /\ i \in pending
    /\ returned' = Append(returned,
                          [member_index |-> i,
                           response |-> TransportResponse(stage_cfg.members[i].id, out)])
    /\ pending' = pending \ {i}
    /\ UNCHANGED <<stage_cfg, stage_pc, responses, running_messages, calls, results>>
    /\ UNCHANGED <<streamVars, councilVars, rankVars, callVars, convVars, settingsVars>>

\* Parallel mode: gather has every result; the stage formats its result list.
GatherDone ==
    /\ stage_pc = "gather" /\ pending = {}
    /\ responses' = Gather(returned, Len(stage_cfg.members))
    /\ results' = FormatStage(stage_cfg.kind, stage_cfg.members, responses')
    /\ stage_pc' = "done"
    /\ UNCHANGED <<stage_cfg, returned, pending, running_messages, calls>>
    /\ UNCHANGED <<streamVars, councilVars, rankVars, callVars, convVars, settingsVars>>

\* Sequential mode: the awaited invocation returns; the loop body runs and
\* either invokes the next member or leaves the loop and formats the result.
SequentialReturn(out) ==
    /\ stage_pc = "await"
    /\ LET n == Len(stage_cfg.members)
           i == Len(responses) + 1
           member == stage_cfg.members[i]
           response == TransportResponse(member.id, out)
           msgs == AppendTurns(running_messages, member, stage_cfg.kind, response, i, n)
       IN /\ responses' = Append(responses, response)
          /\ running_messages' = msgs
          /\ IF i < n
             THEN /\ calls' = Append(calls, Call(i + 1, msgs))
                  /\ UNCHANGED <<results, stage_pc>>
             ELSE /\ results' = FormatStage(stage_cfg.kind, stage_cfg.members, responses')
                  /\ stage_pc' = "done"
                  /\ UNCHANGED calls
    /\ UNCHANGED <<stage_cfg, returned, pending>>
    /\ UNCHANGED <<streamVars, councilVars, rankVars, callVars, convVars, settingsVars>>

StageNext ==
    \/ StageStart
    \/ \E i \in MemberIds, out \in Outcomes : ParallelReturn(i, out)
    \/ GatherDone
    \/ \E out \in Outcomes : SequentialReturn(out)

SpecStage == StageInit /\ [][StageNext]_vars

(***************************************************************************)
(* Claims about one member stage.                                          *)
(***************************************************************************)
NumMembers == Len(stage_cfg.members)

ParallelResponsesDone ==
    /\ stage_pc = "done"
    /\ stage_cfg.execution_mode = "parallel"
    /\ stage_cfg.kind = "responses"

\* What the invocation of the member at position i returned (parallel mode).
ReturnedBy(i) ==
    returned[CHOOSE k \in 1..Len(returned) : returned[k].member_index = i].response

\* C5: in a parallel responses stage the i-th result entry is the result of
\* the i-th configured member (its alias and the text its own invocation
\* returned), whatever the order in which the invocations completed.
C5_ParallelResultOrder ==
    ParallelResponsesDone =>
        /\ Len(results) = NumMembers
        /\ \A i \in 1..NumMembers :
               /\ results[i].model = stage_cfg.members[i].alias
               /\ results[i].response = ReturnedBy(i).content

C5_Witness ==
    /\ ParallelResponsesDone
    /\ NumMembers = 3
    /\ returned[1].member_index = 3 /\ returned[2].member_index = 1
    /\ \A i \in 1..3 : results[i].status = "ok"

RECURSIVE ExpectedChain(_)
ExpectedChain(j) ==
    IF j <= 1 THEN <<[role |-> "user", tag |-> "prompt", label |-> "", text |-> ""]>>
    ELSE IF responses[j - 1].content # ""
    THEN ExpectedChain(j - 1)
         \o <<[role |-> "assistant",
               tag |-> IF stage_cfg.kind = "rankings" THEN "ranking" ELSE "response",
               label |-> stage_cfg.members[j - 1].alias,
               text |-> responses[j - 1].content],
              [role |-> "user",
               tag |-> IF stage_cfg.kind = "rankings" THEN "followup-ranking"
                       ELSE "followup-response",
               label |-> "", text |-> ""]>>
    ELSE ExpectedChain(j - 1)

\* C7: in sequential mode every member after the first is invoked with the
\* prompt followed, for each earlier member that succeeded and in member
\* order, by an assistant turn carrying that member's alias and exact text
\* and a user turn asking to consider the prior members.
C7_SequentialChain ==
    stage_cfg.execution_mode = "sequential" =>
        \A j \in 2..Len(calls) :
            /\ j <= Len(responses) + 1
            /\ calls[j].messages = ExpectedChain(j)

C7_Witness ==
    /\ stage_cfg.execution_mode = "sequential"
    /\ Len(calls) = 3
    /\ responses[1].content # "" /\ responses[2].content # ""
    /\ Len(calls[3].messages) = 5
    /\ calls[3].messages[2].label = stage_cfg.members[1].alias
    /\ calls[3].messages[4].text = responses[2].content

C40_AlternatingTurns ==
    stage_cfg.execution_mode = "sequential" =>
        \A j \in 1..Len(calls) :
            LET msgs == calls[j].messages IN
            /\ msgs # <<>>
            /\ msgs[1] = PromptMessages[1]
            /\ \A t \in 1..Len(msgs) :
                   msgs[t].role = IF t % 2 = 1 THEN "user" ELSE "assistant"
            /\ msgs[Len(msgs)].role = "user"

\* The third member is invoked after a failure and a success.
C40_Witness ==
    /\ stage_cfg.execution_mode = "sequential"
    /\ Len(calls) = 3
    /\ responses[1].content = "" /\ responses[2].content # ""
    /\ Len(calls[3].messages) = 3

(***************************************************************************)
(* PIPELINE: run_full_council                                              *)
(*                                                                         *)
(* A stage is two steps, from the top of the loop body to the await of the *)
(* member invocations and from their return to the end of the loop body.  *)
(* update_council_settings may run while the run is suspended.             *)
(***************************************************************************)
StageKinds == {"responses", "rankings", "synthesis"}

\* member_ids of a configured stage, all of configured members: both members
\* in an order of their own, one member, or none.
StageMemberIds == {<<2, 1>>, <<1>>, <<>>}

\* A stage of the settings; kind "" is a stage stored without a kind.
StageConfig(kind, ids) == [kind |-> kind, member_ids |-> ids]

RECURSIVE StageLists(_)
StageLists(n) ==
    IF n = 0 THEN {<<>>}
    ELSE {<<>>} \cup {<<StageConfig(k, ids)>> \o t :
                         k \in StageKinds \cup {""}, ids \in StageMemberIds,
                         t \in StageLists(n - 1)}

SynthesisIndexes(stages) == {i \in 1..Len(stages) : stages[i].kind = "synthesis"}

MAX_COUNCIL_STAGES == 10

\* Stage lists _validate_council_settings accepts: every stage has members,
\* a synthesis stage has exactly one, is the only one and is the final stage;
\* without a synthesis stage the final stage has exactly one member.
ValidatedStages(stages) ==
    /\ stages # <<>>
    /\ Len(stages) <= MAX_COUNCIL_STAGES
    /\ \A i \in 1..Len(stages) : stages[i].member_ids # <<>>
    /\ \A i \in SynthesisIndexes(stages) : Len(stages[i].member_ids) = 1
    /\ IF SynthesisIndexes(stages) = {}
       THEN Len(stages[Len(stages)].member_ids) = 1
       ELSE SynthesisIndexes(stages) = {Len(stages)}

\* Stage lists ensure_stage_config leaves when settings are loaded: every
\* stage has a kind, the one synthesis stage is the final stage and has one
\* member; member_ids of the other stages are what is left of the stored ids.
NormalisedStages(stages) ==
    /\ stages # <<>>
    /\ \A i \in 1..Len(stages) : stages[i].kind # ""
    /\ SynthesisIndexes(stages) = {Len(stages)}
    /\ Len(stages[Len(stages)].member_ids) = 1

SettingsStages(n) ==
    {st \in StageLists(n) : ValidatedStages(st) \/ NormalisedStages(st)}

\* _derive_chairman_id_from_stages, for the stage lists above.
ChairmanId(stages) == stages[Len(stages)].member_ids[1]

BaseSettings(stages) ==
    [members |-> <<Member(1), Member(2)>>,
     chairman_id |-> ChairmanId(stages),
     chairman_label |-> "Chairman",
     use_system_prompt_stage2 |-> TRUE,
     use_system_prompt_stage3 |-> TRUE,
     stages |-> stages]

\* Payloads of update_council_settings sent while a run is in flight: the
\* system prompts switched off; the chairman's model and label changed.
SettingsEdits(stages) ==
    {[BaseSettings(stages) EXCEPT !.use_system_prompt_stage2 = FALSE,
                                  !.use_system_prompt_stage3 = FALSE],
     [BaseSettings(stages) EXCEPT
         !.members = <<[Member(1) EXCEPT !.model_id = ModelOf(3)], Member(2)>>,
         !.chairman_label = "Chair"]}

\* The text a member returns at a stage: texts of different stages differ.
TextAt(k, id) ==
    <<<<"s0-m1", "s0-m2", "s0-m3">>, <<"s1-m1", "s1-m2", "s1-m3">>,
      <<"s2-m1", "s2-m2", "s2-m3">>, <<"s3-m1", "s3-m2", "s3-m3">>,
      <<"s4-m1", "s4-m2", "s4-m3">>>>[k + 1][id]

CouncilOutcomes == {"ok", "error"}

\* _resolve_stage_members
RECURSIVE _resolve_stage_members(_, _)
_resolve_stage_members(member_ids, members) ==
    IF member_ids = <<>> THEN <<>>
    ELSE LET hits == {i \in 1..Len(members) : members[i].id = Head(member_ids)}
             rest == _resolve_stage_members(Tail(member_ids), members)
         IN IF hits = {} THEN rest
            ELSE <<members[CHOOSE i \in hits : \A j \in hits : j <= i]>> \o rest

\* _resolve_stage_kind
_resolve_stage_kind(stage, i) ==
    IF stage.kind # "" THEN stage.kind
    ELSE IF i = 1 THEN "rankings"
    ELSE IF i = 2 THEN "synthesis"
    ELSE "responses"

\* _council_config() applied to a settings value.
_council_config(S) ==
    LET hits == {i \in 1..Len(S.members) : S.members[i].id = S.chairman_id}
        chairman_model_id ==
            IF hits # {} THEN S.members[CHOOSE i \in hits : \A j \in hits : i <= j].model_id
            ELSE IF S.members # <<>> THEN S.members[1].model_id
            ELSE ""
    IN [members |-> S.members,
        chairman_model_id |-> chairman_model_id,
        chairman_label |-> S.chairman_label,
        use_system_prompt_stage2 |-> S.use_system_prompt_stage2,
        use_system_prompt_stage3 |-> S.use_system_prompt_stage3]

\* The configuration a stage works with.  A responses stage takes it from
\* the settings run_full_council was handed; collect_rankings and
\* synthesize_final call _council_config(), whose values `config` are, and
\* override some of them by the stage's own members when it has any.
StageReads(config, run_members, kind, stage_members) ==
    CASE kind = "rankings" ->
           [members |-> IF stage_members # <<>> THEN stage_members ELSE config.members,
            chairman_model_id |-> "", chairman_label |-> "",
            use_system_prompt |-> config.use_system_prompt_stage2]
      [] kind = "synthesis" ->
           [members |-> IF stage_members # <<>> THEN stage_members ELSE config.members,
            chairman_model_id |-> IF stage_members # <<>> THEN stage_members[1].model_id
                                  ELSE config.chairman_model_id,
            chairman_label |-> IF stage_members # <<>> THEN stage_members[1].alias
                               ELSE config.chairman_label,
            use_system_prompt |-> config.use_system_prompt_stage3]
      [] OTHER ->
           [members |-> IF stage_members # <<>> THEN stage_members ELSE run_members,
            chairman_model_id |-> "", chairman_label |-> "",
            use_system_prompt |-> TRUE]

\* Mutant of SuccessfulResults: failed results are ranked as well.
AllResults(resps) == resps

\* successful_results of collect_rankings
SuccessfulResults(resps) ==
    SelectSeq(resps, LAMBDA r : r.status # "failed" /\ r.response # "")

\* label_to_model, as the list of models in label order (Response A first)
LabelToModel(resps) ==
    [i \in 1..Len(SuccessfulResults(resps)) |-> SuccessfulResults(resps)[i].model]

\* The result of synthesize_final.
SynthesisResult(label, response) ==
    [model |-> label,
     response |-> IF response.content # "" THEN response.content
                  ELSE "Error: Unable to generate final synthesis.",
     stream_error |-> IF response.content # "" /\ response.partial THEN response.error
                      ELSE ""]

\* The stage appended after the loop when last_responses is empty.
ErrorStage(n) ==
    [index |-> n, kind |-> "synthesis", label_to_model |-> <<>>,
     results |-> [model |-> "error",
                  response |-> "All models failed to respond. Please try again.",
                  stream_error |-> ""]]

\* Mutant of NextLastResponses: a stage of another kind clears the context.
NextLastResponsesCleared(kind, old, res) ==
    IF kind \notin {"rankings", "synthesis"} THEN res ELSE <<>>

\* last_responses after a stage: only the else-branch (responses) assigns it.
NextLastResponses(kind, old, res) ==
    IF kind \notin {"rankings", "synthesis"} THEN res ELSE old

\* last_rankings after a stage: only a rankings stage assigns it.
NextLastRankings(kind, old, res) ==
    IF kind = "rankings" THEN res ELSE old

\* An entry of the timeline: a hook call, or the invocation of the members
\* of a stage, with the index of the stage.
HookEvent(type, k) == [type |-> type, index |-> k]

\* Mutant of StageBeginEvents: on_stage_start is not called.
StageBeginEventsWithoutStart(k, skipped) ==
    IF skipped THEN <<HookEvent("on_stage_complete", k)>>
    ELSE <<HookEvent("invoke", k)>>

\* From the top of the loop body to the first await of an invocation:
\* on_stage_start, then the members are invoked; a rankings stage with
\* nothing to rank returns at once and on_stage_complete follows.
StageBeginEvents(k, skipped) ==
    <<HookEvent("on_stage_start", k)>>
    \o (IF skipped THEN <<HookEvent("on_stage_complete", k)>>
        ELSE <<HookEvent("invoke", k)>>)

CouncilInit ==
    /\ settings \in {BaseSettings(st) : st \in SettingsStages(MaxStages)}
    /\ SETTINGS = settings
    /\ council_pc = "stage"
    /\ index = 0
    /\ last_responses = <<>> /\ last_rankings = <<>>
    /\ stages_output = <<>> /\ handed = <<>> /\ invoked = <<>>
    /\ timeline = <<>>
    /\ StreamParked /\ StageParked /\ RankParked /\ CallParked /\ ConvParked
    /\ SettingsParked

\* update_council_settings: update_settings replaces the live settings.
update_council_settings(edit) ==
    /\ council_pc \in {"stage", "await"}
    /\ SETTINGS # edit
    /\ SETTINGS' = edit
    /\ UNCHANGED <<settings, council_pc, index, last_responses, last_rankings,
                   stages_output, handed, invoked, timeline>>
    /\ UNCHANGED <<streamVars, stageVars, rankVars, callVars, convVars, settingsVars>>

\* End of the loop body: the entry is appended, the rolling context updated;
\* after the last stage the synthetic error stage is appended when
\* last_responses is empty.
CompleteStage(kind, res, ltm) ==
    LET entry == [index |-> index, kind |-> kind, results |-> res, label_to_model |-> ltm]
        out == Append(stages_output, entry)
        lr == NextLastResponses(kind, last_responses, res)
        lk == NextLastRankings(kind, last_rankings, res)
    IN /\ last_responses' = lr
       /\ last_rankings' = lk
       /\ index' = index + 1
       /\ IF index + 1 < Len(settings.stages)
          THEN /\ stages_output' = out
               /\ council_pc' = "stage"
          ELSE /\ stages_output' = IF lr = <<>> THEN Append(out, ErrorStage(Len(out)))
                                   ELSE out
               /\ council_pc' = "done"

\* Top of the loop body up to the await of the invocations.
CouncilStageBegin ==
    /\ council_pc = "stage"
    /\ LET stage == settings.stages[index + 1]
           stage_members == _resolve_stage_members(stage.member_ids, settings.members)
           kind == _resolve_stage_kind(stage, index)
           reads == StageReads(_council_config(SETTINGS), settings.members,
                               kind, stage_members)
           skipped == kind = "rankings" /\ SuccessfulResults(last_responses) = <<>>
       IN /\ handed' = Append(handed,
                 [kind |-> kind, responses |-> last_responses,
                  rankings |-> last_rankings, skipped |-> skipped,
                  stage_members |-> stage_members, reads |-> reads])
          /\ timeline' = timeline \o StageBeginEvents(index, skipped)
          /\ IF skipped
             THEN /\ invoked' = Append(invoked, <<>>)
                  /\ CompleteStage(kind, <<>>, <<>>)
             ELSE /\ invoked' = Append(invoked,
                        IF kind = "synthesis" THEN <<reads.chairman_model_id>>
                        ELSE [i \in 1..Len(reads.members) |-> reads.members[i].model_id])
                  /\ council_pc' = "await"
                  /\ UNCHANGED <<index, last_responses, last_rankings, stages_output>>
    /\ UNCHANGED <<SETTINGS, settings>>
    /\ UNCHANGED <<streamVars, stageVars, rankVars, callVars, convVars, settingsVars>>

\* The invocations of the stage have returned: the stage result is formatted
\* and the loop body ends.
CouncilStageEnd(outs) ==
    /\ council_pc = "await"
    /\ LET h == handed[index + 1]
           n == Len(h.reads.members)
       IN /\ DOMAIN outs = 1..(IF h.kind = "synthesis" THEN 1 ELSE n)
          /\ CASE h.kind = "synthesis" ->
                    CompleteStage(h.kind,
                        SynthesisResult(h.reads.chairman_label,
                                        ResponseWith(TextAt(index, 3), outs[1])),
                        <<>>)
               [] h.kind = "rankings" ->
                    CompleteStage(h.kind,
                        FormatRankings(h.reads.members,
                            [i \in 1..n |-> ResponseWith(TextAt(index, h.reads.members[i].id),
                                                         outs[i])]),
                        LabelToModel(h.responses))
               [] OTHER ->
                    CompleteStage(h.kind,
                        FormatResults(h.reads.members,
                            [i \in 1..n |-> ResponseWith(TextAt(index, h.reads.members[i].id),
                                                         outs[i])]),
                        <<>>)
    /\ timeline' = Append(timeline, HookEvent("on_stage_complete", index))
    /\ UNCHANGED <<SETTINGS, settings, handed, invoked>>
    /\ UNCHANGED <<streamVars, stageVars, rankVars, callVars, convVars, settingsVars>>

\* _emit_stage_member_delta: a member of the stage in progress streams a
\* chunk, which is forwarded to on_stage_delta.
CouncilMemberDelta ==
    /\ council_pc = "await"
    /\ Len(SelectSeq(timeline, LAMBDA e : e.type = "on_stage_delta")) < MaxRunDeltas
    /\ timeline' = Append(timeline, HookEvent("on_stage_delta", index))
    /\ UNCHANGED <<SETTINGS, settings, council_pc, index, last_responses,
                   last_rankings, stages_output, handed, invoked>>
    /\ UNCHANGED <<streamVars, stageVars, rankVars, callVars, convVars, settingsVars>>

OutcomeVectors == UNION {[1..n -> CouncilOutcomes] : n \in 1..2}

CouncilNext ==
    \/ CouncilStageBegin
    \/ CouncilMemberDelta
    \/ \E outs \in OutcomeVectors : CouncilStageEnd(outs)
    \/ \E edit \in SettingsEdits(settings.stages) :
           update_council_settings(edit)

SpecCouncil == CouncilInit /\ [][CouncilNext]_vars

(***************************************************************************)
(* Claims about the pipeline                                               *)
(***************************************************************************)
\* Stages of the run that went as far as invoking their members.
Invoking == {k \in 1..Len(handed) : ~handed[k].skipped}

\* C4: every configuration value a stage of a run reads (members, chairman
\* model and label, its system-prompt flag) is the value of the settings the
\* run was started with, whatever update_council_settings did meanwhile.
C4_ReadsOnlySnapshot ==
    council_pc # "parked" =>
        \A k \in Invoking :
            handed[k].reads = StageReads(_council_config(settings), settings.members,
                                         handed[k].kind, handed[k].stage_members)

\* Result of the most recent stage of the given kind among the first k - 1
\* stages of the run, empty when there is none.
MostRecentResult(kind, k) ==
    LET earlier == {j \in 1..(k - 1) : stages_output[j].kind = kind}
    IN IF earlier = {} THEN <<>>
       ELSE stages_output[CHOOSE j \in earlier : \A i \in earlier : i <= j].results

\* C9: a rankings or synthesis stage is handed the result of the most recent
\* earlier responses stage, and a synthesis stage the result of the most
\* recent earlier rankings stage, empty when there is none, whatever stages
\* lie in between.
C9_RollingContext ==
    council_pc # "parked" =>
        \A k \in 1..Len(handed) :
            /\ handed[k].kind \in {"rankings", "synthesis"} =>
                   handed[k].responses = MostRecentResult("responses", k)
            /\ handed[k].kind = "synthesis" =>
                   handed[k].rankings = MostRecentResult("rankings", k)

\* A synthesis stage in the third of four positions is handed the result of
\* the rankings stage before it, and the rankings stage after it is handed
\* the result of the first stage, a member of which succeeded.
C9_Witness ==
    /\ council_pc = "done"
    /\ Len(handed) = Len(settings.stages)
    /\ \E k \in 3..(Len(handed) - 1) :
           /\ handed[k].kind = "synthesis"
           /\ handed[k - 1].kind = "rankings"
           /\ handed[k].rankings = stages_output[k - 1].results
           /\ handed[k].rankings # <<>>
           /\ handed[k + 1].kind = "rankings"
           /\ ~handed[k + 1].skipped
           /\ handed[k + 1].responses = stages_output[k - 2].results
           /\ \E i \in 1..Len(handed[k + 1].responses) :
                  handed[k + 1].responses[i].status = "ok"

\* The rankings handed to a synthesis stage are those of a rankings stage
\* that a later responses stage separates it from.
RankingsOutliveResponsesStage ==
    \E k \in 4..Len(handed) :
        /\ handed[k].kind = "synthesis"
        /\ handed[k - 1].kind = "responses"
        /\ handed[k - 2].kind = "rankings"
        /\ handed[k - 3].kind = "responses"
        /\ handed[k].rankings = stages_output[k - 2].results
        /\ handed[k].rankings # <<>>
        /\ handed[k].responses = stages_output[k - 1].results
        /\ handed[k].responses # stages_output[k - 3].results

AllFailed(res) ==
    res # <<>> /\ \A i \in 1..Len(res) : res[i].status = "failed"

\* Completed responses stages every member of which failed.
ExhaustedStages ==
    {j \in 1..Len(handed) :
        /\ handed[j].kind = "responses"
        /\ j <= Len(stages_output)
        /\ AllFailed(stages_output[j].results)}

\* C10: when every member of a responses stage failed, each member was
\* invoked once, the responses handed to the following stages (up to the
\* next responses stage) are empty, and the run goes through every stage.
C10_ExhaustedStageEmptiesContext ==
    council_pc # "parked" =>
        /\ \A j \in ExhaustedStages :
              /\ Len(invoked[j]) = Len(handed[j].reads.members)
              /\ \A k \in (j + 1)..Len(handed) :
                     (\A i \in (j + 1)..(k - 1) : handed[i].kind # "responses")
                         => handed[k].responses = <<>>
        /\ council_pc = "done" => Len(handed) = Len(settings.stages)

\* Some responses stage of the run has a successful member result.
SomeResponsesOutput ==
    \E j \in 1..Len(handed) :
        /\ handed[j].kind = "responses"
        /\ j <= Len(stages_output)
        /\ \E i \in 1..Len(stages_output[j].results) :
               stages_output[j].results[i].status = "ok"

\* The run has returned with the synthetic error stage after its own stages.
ErrorStageAppended ==
    /\ council_pc = "done"
    /\ Len(stages_output) = Len(settings.stages) + 1
    /\ stages_output[Len(stages_output)].index = Len(settings.stages)

\* C11: a run returns with the synthetic error stage as its last stage
\* exactly when no responses stage of the run produced a successful output.
C11_ErrorStageIffNoOutput ==
    council_pc = "done" => (ErrorStageAppended <=> ~SomeResponsesOutput)

\* The half of C11 that holds: output of some responses stage means no
\* synthetic stage; no responses stage at all means the synthetic stage.
SyntheticStageOnlyWithoutOutput ==
    council_pc = "done" =>
        /\ SomeResponsesOutput => ~ErrorStageAppended
        /\ (\A j \in 1..Len(handed) : handed[j].kind # "responses") => ErrorStageAppended

\* Positions of the timeline holding an event of the given type and stage.
Positions(type, k) ==
    {p \in 1..Len(timeline) : timeline[p] = HookEvent(type, k)}

\* Event types that may directly follow an event of the given type within the
\* same stage.
WithinStage(type) ==
    IF type = "on_stage_start"
        THEN {"invoke", "on_stage_complete"}
        ELSE {"on_stage_delta", "on_stage_complete"}

SynthesisRuns == {k \in 1..Len(handed) : handed[k].kind = "synthesis"}

\* C19: a run of settings that _validate_council_settings accepts executes
\* exactly one stage as synthesis, that stage is its last and has exactly one
\* member, and the stages are at most MAX_COUNCIL_STAGES.
C19_OneFinalSynthesis ==
    (council_pc = "done" /\ ValidatedStages(settings.stages)) =>
        /\ SynthesisRuns = {Len(settings.stages)}
        /\ Len(handed[Len(handed)].stage_members) = 1
        /\ Len(settings.stages) <= MAX_COUNCIL_STAGES

\* What does hold for accepted settings: the final stage has one member and
\* no stage stored with kind synthesis comes before it.
AcceptedFinalStageHasOneMember ==
    (council_pc = "done" /\ ValidatedStages(settings.stages)) =>
        /\ Len(handed[Len(handed)].stage_members) = 1
        /\ \A k \in 1..(Len(settings.stages) - 1) : settings.stages[k].kind # "synthesis"

\* C20: a run whose client disconnected while the run was active has its
\* cancel flag set and its worker task cancelled.  (A generator that is
\* closed while its queue holds no terminal event was closed by the
\* disconnection of its client.)
C20_DisconnectCancelsRun ==
    stage_pc = "parked" /\ council_pc = "parked" =>
        \A r \in Started :
            (generator[r] = "closed" /\ TerminalCount(r) = 0 /\ task[r] # "done")
                => /\ cancel_event[r]
                   /\ must_cancel[r] \/ task[r] \in {"shield", "reraise"}

\* The disconnection of the client of the run that is registered under the
\* key does go through cancel_active_stream.
RegisteredRunCancelledOnDisconnect ==
    [][\A r \in Runs :
          (GeneratorDisconnected(r) /\ ACTIVE_STREAMS = r) =>
              cancel_event'[r] /\ must_cancel'[r]]_vars

(***************************************************************************)
(* RANKING FUNCTIONS: the label map of collect_rankings,                   *)
(* parse_ranking_from_text and calculate_aggregate_rankings                *)
(*                                                                         *)
(* A rater's text is a sequence of tokens: the marker "FINAL RANKING:", a  *)
(* numbered entry "<digits>. Response X", a bare "Response X", or other    *)
(* words.                                                                  *)
(***************************************************************************)
MaxTokens == 4      \* tokens of a text given to parse_ranking_from_text
MaxRankLen == 2     \* tokens of a rater's text given to the aggregation
MaxRaters == 2      \* raters whose rankings are aggregated

Letters ==
    <<"A", "B", "C", "D", "E", "F", "G", "H", "I", "J", "K", "L", "M",
      "N", "O", "P", "Q", "R", "S", "T", "U", "V", "W", "X", "Y", "Z">>

\* f"Response {chr(65 + i)}" for the i-th result (i counted from 1 here)
ResponseLabel(i) == "Response " \o Letters[i]

\* Labels that occur in the texts of the model.
TextLabels == {ResponseLabel(i) : i \in 1..MaxMembers}

Token(t, label) == [t |-> t, label |-> label]

Marker == Token("marker", "")

BareTokens == {Token("label", l) : l \in TextLabels}

Tokens ==
    {Marker, Token("word", "")} \cup BareTokens
    \cup {Token("numbered", l) : l \in {ResponseLabel(1), ResponseLabel(2)}}

RECURSIVE Texts(_, _)
Texts(alphabet, n) ==
    IF n = 0 THEN {<<>>}
    ELSE {<<>>} \cup {<<tok>> \o rest : tok \in alphabet, rest \in Texts(alphabet, n - 1)}

\* "FINAL RANKING:" in ranking_text
HasMarker(text) == \E i \in 1..Len(text) : text[i] = Marker

MarkerPositions(text) == {i \in 1..Len(text) : text[i] = Marker}

\* ranking_text.split("FINAL RANKING:")[1]: what lies between the first
\* occurrence of the marker and the next one (or the end of the text).
SplitPart1(text) ==
    LET first == CHOOSE i \in MarkerPositions(text) : \A j \in MarkerPositions(text) : i <= j
        later == {j \in MarkerPositions(text) : j > first}
        stop == IF later = {} THEN Len(text) + 1
                ELSE CHOOSE j \in later : \A k \in later : j <= k
    IN SubSeq(text, first + 1, stop - 1)

LabelsOf(tokens) == [i \in 1..Len(tokens) |-> tokens[i].label]

\* re.findall(r'\d+\.\s*Response [A-Z]', section), each reduced to its
\* "Response X"
NumberedMatches(section) ==
    LabelsOf(SelectSeq(section, LAMBDA tok : tok.t = "numbered"))

\* re.findall(r'Response [A-Z]', section): a numbered entry holds one too
LabelMatches(section) ==
    LabelsOf(SelectSeq(section, LAMBDA tok : tok.t \in {"numbered", "label"}))

parse_ranking_from_text(text) ==
    IF HasMarker(text)
    THEN IF NumberedMatches(SplitPart1(text)) # <<>>
         THEN NumberedMatches(SplitPart1(text))
         ELSE LabelMatches(SplitPart1(text))
    ELSE LabelMatches(text)

\* label_to_model of collect_rankings: "Response A", "Response B", ... zipped
\* with the successful results.
BuildLabelToModel(resps) ==
    [l \in {ResponseLabel(i) : i \in 1..Len(SuccessfulResults(resps))} |->
        SuccessfulResults(resps)[CHOOSE i \in 1..Len(SuccessfulResults(resps)) :
                                     ResponseLabel(i) = l].model]

\* Mutant of Position: positions are counted from zero.
PositionFromZero(i) == i - 1

\* The position enumerate(parsed_ranking, start=1) gives to the i-th label.
Position(i) == i

\* model_positions[model].append(position); the dict keeps its keys in the
\* order in which they were first inserted.
AddPosition(model_positions, model, position) ==
    IF \E i \in 1..Len(model_positions) : model_positions[i].model = model
    THEN [i \in 1..Len(model_positions) |->
             IF model_positions[i].model = model
             THEN [model_positions[i] EXCEPT !.positions = Append(@, position)]
             ELSE model_positions[i]]
    ELSE Append(model_positions, [model |-> model, positions |-> <<position>>])

\* for position, label in enumerate(parsed_ranking, start=1): ...
RECURSIVE ScanParsed(_, _, _, _)
ScanParsed(model_positions, parsed, ltm, i) ==
    IF i > Len(parsed) THEN model_positions
    ELSE ScanParsed(
             IF parsed[i] \in DOMAIN ltm
             THEN AddPosition(model_positions, ltm[parsed[i]], Position(i))
             ELSE model_positions,
             parsed, ltm, i + 1)

\* for ranking in rankings_results: ...
RECURSIVE ScanRankings(_, _, _)
ScanRankings(model_positions, rankings, ltm) ==
    IF rankings = <<>> THEN model_positions
    ELSE ScanRankings(
             ScanParsed(model_positions,
                        parse_ranking_from_text(Head(rankings).ranking), ltm, 1),
             Tail(rankings), ltm)

RECURSIVE SumSeq(_)
SumSeq(q) == IF q = <<>> THEN 0 ELSE Head(q) + SumSeq(Tail(q))

\* round(total / count, 2), in hundredths; a tie goes to the even hundredth.
Round2(total, count) ==
    LET q == (100 * total) \div count
        r == (100 * total) % count
    IN IF 2 * r < count THEN q
       ELSE IF 2 * r > count THEN q + 1
       ELSE IF q % 2 = 0 THEN q ELSE q + 1

AggregateEntry(mp) ==
    [model |-> mp.model,
     average_rank |-> Round2(SumSeq(mp.positions), Len(mp.positions)),
     rankings_count |-> Len(mp.positions)]

\* Mutant of SortByAverageRank: the list is left in dict order.
Unsorted(agg) == agg

\* aggregate.sort(key=lambda x: x['average_rank']): a stable sort.
RECURSIVE SortByAverageRank(_)
SortByAverageRank(agg) ==
    IF agg = <<>> THEN <<>>
    ELSE LET least == CHOOSE i \in 1..Len(agg) :
                 \A j \in 1..Len(agg) :
                     \/ agg[i].average_rank < agg[j].average_rank
                     \/ agg[i].average_rank = agg[j].average_rank /\ i <= j
         IN <<agg[least]>>
            \o SortByAverageRank([k \in 1..(Len(agg) - 1) |->
                                     IF k < least THEN agg[k] ELSE agg[k + 1]])

calculate_aggregate_rankings(rankings, ltm) ==
    LET model_positions == ScanRankings(<<>>, rankings, ltm)
    IN SortByAverageRank([i \in 1..Len(model_positions) |->
                             AggregateEntry(model_positions[i])])

\* Member lists that settings validation accepts: ids are unique, aliases
\* are not empty and need not differ.
AcceptedMemberLists ==
    UNION {{[i \in 1..n |-> [Member(i) EXCEPT !.alias = a[i]]] :
               a \in [1..n -> {AliasOf(i) : i \in MemberIds}]} : n \in MemberIds}

\* Results of a responses stage of the given members, for every outcome of
\* every member.
RankedResponses(ms) ==
    {FormatResults(ms, [i \in 1..Len(ms) |-> TransportResponse(i, o[i])]) :
        o \in [1..Len(ms) -> Outcomes]}

\* Alias lists of the members whose responses are ranked in an aggregation:
\* three members of distinct aliases, and two members sharing an alias.
RankedAliasLists == {<<"Alpha", "Beta", "Gamma">>, <<"Alpha", "Alpha">>}

\* Label maps built from responses stages of such members in which every
\* member succeeded.
LabelMaps ==
    {BuildLabelToModel(FormatResults(
         [i \in 1..Len(a) |-> [Member(i) EXCEPT !.alias = a[i]]],
         [i \in 1..Len(a) |-> TransportResponse(i, "ok")])) : a \in RankedAliasLists}

\* Bare labels a rater can write: those of the longest map, so that a shorter
\* map leaves some of them unresolved.
RaterTokens ==
    {Token("label", ResponseLabel(i)) : i \in UNION {DOMAIN a : a \in RankedAliasLists}}

\* Entries of a rankings stage of n raters, the text of each a list of bare
\* labels.
RaterEntries(n) ==
    {[r \in 1..n |-> [model |-> AliasOf(r), ranking |-> texts[r]]] :
        texts \in [1..n -> Texts(RaterTokens, MaxRankLen)]}

RankInit ==
    /\ rank_pc = "call"
    /\ parsed_ranking = <<>> /\ aggregate = <<>>
    /\ \/ /\ rank_fn = "collect_rankings"
          /\ \E ms \in AcceptedMemberLists : responses_in \in RankedResponses(ms)
          /\ label_to_model = <<>> /\ ranking_text = <<>> /\ rankings_results = <<>>
       \/ /\ rank_fn = "parse_ranking_from_text"
          /\ ranking_text \in Texts(Tokens, MaxTokens)
          /\ responses_in = <<>> /\ label_to_model = <<>> /\ rankings_results = <<>>
       \/ /\ rank_fn = "calculate_aggregate_rankings"
          /\ label_to_model \in LabelMaps
          /\ \E n \in 0..MaxRaters : rankings_results \in RaterEntries(n)
          /\ responses_in = <<>> /\ ranking_text = <<>>
    /\ StreamParked /\ StageParked /\ CouncilParked /\ CallParked /\ ConvParked
    /\ SettingsParked

\* collect_rankings up to the label map.
CallCollectRankings ==
    /\ rank_fn = "collect_rankings" /\ rank_pc = "call"
    /\ label_to_model' = BuildLabelToModel(responses_in)
    /\ rank_pc' = "returned"
    /\ UNCHANGED <<rank_fn, responses_in, ranking_text, parsed_ranking,
                   rankings_results, aggregate>>
    /\ UNCHANGED <<streamVars, stageVars, councilVars, callVars, convVars, settingsVars>>

CallParseRanking ==
    /\ rank_fn = "parse_ranking_from_text" /\ rank_pc = "call"
    /\ parsed_ranking' = parse_ranking_from_text(ranking_text)
    /\ rank_pc' = "returned"
    /\ UNCHANGED <<rank_fn, responses_in, label_to_model, ranking_text,
                   rankings_results, aggregate>>
    /\ UNCHANGED <<streamVars, stageVars, councilVars, callVars, convVars, settingsVars>>

CallAggregateRankings ==
    /\ rank_fn = "calculate_aggregate_rankings" /\ rank_pc = "call"
    /\ aggregate' = calculate_aggregate_rankings(rankings_results, label_to_model)
    /\ rank_pc' = "returned"
    /\ UNCHANGED <<rank_fn, responses_in, label_to_model, ranking_text,
                   parsed_ranking, rankings_results>>
    /\ UNCHANGED <<streamVars, stageVars, councilVars, callVars, convVars, settingsVars>>

RankNext ==
    \/ CallCollectRankings
    \/ CallParseRanking
    \/ CallAggregateRankings

SpecRanking == RankInit /\ [][RankNext]_vars

(***************************************************************************)
(* Claims about the ranking functions                                      *)
(***************************************************************************)
Returned(fn) == rank_fn = fn /\ rank_pc = "returned"

\* Positions of the successful results among the results given.
SuccessfulPositions ==
    {i \in 1..Len(responses_in) : responses_in[i].status = "ok"}

\* The n-th successful result.
NthSuccessful(n) ==
    responses_in[CHOOSE i \in SuccessfulPositions :
                     Cardinality({j \in SuccessfulPositions : j <= i}) = n]

\* C13: the label map has one label per successful result, labels assigned in
\* the order of those results, so that a failed member has none.
C13_OneLabelPerSuccess ==
    Returned("collect_rankings") =>
        /\ DOMAIN label_to_model =
               {ResponseLabel(n) : n \in 1..Cardinality(SuccessfulPositions)}
        /\ \A n \in 1..Cardinality(SuccessfulPositions) :
               label_to_model[ResponseLabel(n)] = NthSuccessful(n).model

\* Three members with names of their own, the second failed: two labels, the
\* second of them the third member's.
C13_Witness ==
    /\ Returned("collect_rankings")
    /\ Len(responses_in) = 3
    /\ responses_in[1].status = "ok"
    /\ responses_in[2].status = "failed"
    /\ responses_in[3].status = "ok"
    /\ responses_in[1].model # responses_in[2].model
    /\ responses_in[3].model # responses_in[2].model
    /\ DOMAIN label_to_model = {"Response A", "Response B"}
    /\ label_to_model["Response B"] = responses_in[3].model

\* C14: every label issued is one of "Response A".."Response Z" and two
\* distinct labels never resolve to the same model name.
C14_LabelMapInjective ==
    Returned("collect_rankings") =>
        /\ DOMAIN label_to_model \subseteq {ResponseLabel(i) : i \in 1..Len(Letters)}
        /\ \A l1, l2 \in DOMAIN label_to_model :
               l1 # l2 => label_to_model[l1] # label_to_model[l2]

\* What does hold: the labels are letters A..Z, as many as successful results.
LabelsAreLetters ==
    Returned("collect_rankings") =>
        /\ DOMAIN label_to_model \subseteq {ResponseLabel(i) : i \in 1..Len(Letters)}
        /\ Cardinality(DOMAIN label_to_model) = Cardinality(SuccessfulPositions)

\* The parsed order of rater r.
ParsedOrder(r) == parse_ranking_from_text(rankings_results[r].ranking)

\* Occurrences (rater, index) of a label that resolves to the model.
Votes(model) ==
    {v \in (1..Len(rankings_results)) \X (1..MaxRankLen) :
        /\ v[2] <= Len(ParsedOrder(v[1]))
        /\ ParsedOrder(v[1])[v[2]] \in DOMAIN label_to_model
        /\ label_to_model[ParsedOrder(v[1])[v[2]]] = model}

RECURSIVE IndexSum(_)
IndexSum(votes) ==
    IF votes = {} THEN 0
    ELSE LET v == CHOOSE w \in votes : TRUE IN v[2] + IndexSum(votes \ {v})

Distance(a, b) == IF a < b THEN b - a ELSE a - b

\* C15: an entry's vote count is the number of label occurrences resolving to
\* its model, and its average_rank (in hundredths) is the mean of the 1-based
\* indexes of those occurrences, to the nearest hundredth; an unresolved label
\* votes for nobody and keeps its index.
C15_VotesAndMean ==
    Returned("calculate_aggregate_rankings") =>
        \A k \in 1..Len(aggregate) :
            /\ aggregate[k].rankings_count = Cardinality(Votes(aggregate[k].model))
            /\ 2 * Distance(100 * IndexSum(Votes(aggregate[k].model)),
                            aggregate[k].average_rank * aggregate[k].rankings_count)
                   <= aggregate[k].rankings_count

\* Two raters, an unresolved label ahead of a resolved one, and a mean that
\* is not a whole number of hundredths before rounding.
C15_Witness ==
    /\ Returned("calculate_aggregate_rankings")
    /\ Len(rankings_results) = 2
    /\ \E r \in 1..2 : \E p, q \in 1..Len(ParsedOrder(r)) :
           /\ p < q
           /\ ParsedOrder(r)[p] \notin DOMAIN label_to_model
           /\ ParsedOrder(r)[q] \in DOMAIN label_to_model
    /\ \E k \in 1..Len(aggregate) :
           (100 * IndexSum(Votes(aggregate[k].model))) % aggregate[k].rankings_count # 0

\* When the model was first seen while scanning the rankings.
FirstSeen(model) ==
    LET at == {v[1] * (MaxRankLen + 1) + v[2] : v \in Votes(model)}
    IN CHOOSE x \in at : \A y \in at : x <= y

\* C16: one entry for each model with a vote and none for the others, by
\* non-decreasing average_rank, equal ranks in first-seen order.
C16_EntriesAndOrder ==
    Returned("calculate_aggregate_rankings") =>
        /\ {aggregate[k].model : k \in 1..Len(aggregate)}
               = {label_to_model[l] : l \in {x \in DOMAIN label_to_model :
                                                Votes(label_to_model[x]) # {}}}
        /\ \A i, j \in 1..Len(aggregate) :
               i < j =>
                   /\ aggregate[i].model # aggregate[j].model
                   /\ aggregate[i].average_rank <= aggregate[j].average_rank
                   /\ aggregate[i].average_rank = aggregate[j].average_rank
                          => FirstSeen(aggregate[i].model) < FirstSeen(aggregate[j].model)

\* Three entries: two of equal rank, and one that was seen before a better
\* ranked one.
C16_Witness ==
    /\ Returned("calculate_aggregate_rankings")
    /\ Len(aggregate) = 3
    /\ \E i, j \in 1..3 : i < j /\ aggregate[i].average_rank = aggregate[j].average_rank
    /\ \E i, j \in 1..3 :
           /\ i < j
           /\ aggregate[i].average_rank < aggregate[j].average_rank
           /\ FirstSeen(aggregate[j].model) < FirstSeen(aggregate[i].model)

\* Numbered entries of the section if it has any, else all its labels.
PreferNumbered(section) ==
    IF NumberedMatches(section) # <<>> THEN NumberedMatches(section)
    ELSE LabelMatches(section)

\* C17: the labels returned are those of the numbered entries of the parsed
\* section when it has any, otherwise all labels of the section, in order and
\* as they are; without a marker the parsed section is the whole text.  (With
\* a marker the section is taken as the function takes it.)
C17_NumberedElseAll ==
    Returned("parse_ranking_from_text") =>
        parsed_ranking = PreferNumbered(IF HasMarker(ranking_text)
                                        THEN SplitPart1(ranking_text)
                                        ELSE ranking_text)

\* What does hold: C17 for the texts that hold the marker.
NumberedElseAllAfterMarker ==
    (Returned("parse_ranking_from_text") /\ HasMarker(ranking_text)) =>
        parsed_ranking = PreferNumbered(SplitPart1(ranking_text))

\* All of the text after the marker at position i.
After(text, i) == SubSeq(text, i + 1, Len(text))

\* C18: with the marker in the text, what is parsed is all of the text after
\* the marker (after its first occurrence, or after its last), and no label
\* that occurs only before it is returned.
C18_ParsesAllAfterMarker ==
    (Returned("parse_ranking_from_text") /\ HasMarker(ranking_text)) =>
        /\ \E i \in MarkerPositions(ranking_text) :
               /\ \/ \A j \in MarkerPositions(ranking_text) : i <= j
                  \/ \A j \in MarkerPositions(ranking_text) : j <= i
               /\ parsed_ranking = PreferNumbered(After(ranking_text, i))
        /\ \A k \in 1..Len(parsed_ranking) :
               \E i \in MarkerPositions(ranking_text) :
                   \E p \in (i + 1)..Len(ranking_text) :
                       ranking_text[p].label = parsed_ranking[k]

\* What does hold: C18 for the texts in which the marker occurs once.
ParsesAllAfterSingleMarker ==
    (Returned("parse_ranking_from_text") /\ Cardinality(MarkerPositions(ranking_text)) = 1) =>
        \A i \in MarkerPositions(ranking_text) :
            parsed_ranking = PreferNumbered(After(ranking_text, i))

(***************************************************************************)
(* Claims about the registry of streaming runs.                            *)
(***************************************************************************)

\* C27: a run stays registered under the conversation key from its start
\* until its own worker has finished or the run itself was cancelled (its
\* cancel flag is set): no teardown of an earlier run removes its entry.
C27_RunStaysRegistered ==
    stage_pc = "parked" /\ council_pc = "parked" /\ rank_pc = "parked" =>
        \A r \in Started :
            (task[r] # "done" /\ ~cancel_event[r]) => ACTIVE_STREAMS = r

\* The half of C27 that holds: a step that finishes the worker of a run
\* (its finally block) leaves the entry of any other run in place.
WorkerFinallyKeepsOtherEntry ==
    [][\A r \in Runs :
          (task[r] # "done" /\ task'[r] = "done" /\ ACTIVE_STREAMS # r)
              => ACTIVE_STREAMS' = ACTIVE_STREAMS]_vars

\* C28: the disconnection seen by the event_generator of run r sets the
\* cancel flag of no other run and cancels the task of no other run.
C28_DisconnectCancelsOwnRunOnly ==
    [][\A r \in Runs :
          GeneratorDisconnected(r) =>
              \A q \in Runs \ {r} :
                  /\ cancel_event'[q] = cancel_event[q]
                  /\ must_cancel'[q] = must_cancel[q]]_vars

(***************************************************************************)
(* FUNCTIONS OVER STORED DATA                                              *)
(*                                                                         *)
(* _format_stage_prompt, get_final_response, _build_speaker_context and    *)
(* _validate_council_settings, each called once on arguments drawn from a  *)
(* bounded set.  A text is the sequence of its pieces: fixed strings of    *)
(* the code, values, placeholders and white space; concatenation of        *)
(* strings is concatenation of sequences, the empty string (and None,      *)
(* which the code treats alike) is <<>>.                                   *)
(***************************************************************************)
Whitespace == {" ", "\n", "\n\n"}

\* str.strip()
RECURSIVE LStrip(_)
LStrip(text) ==
    IF text # <<>> /\ Head(text) \in Whitespace THEN LStrip(Tail(text)) ELSE text

RECURSIVE RStrip(_)
RStrip(text) ==
    IF text # <<>> /\ text[Len(text)] \in Whitespace
        THEN RStrip(SubSeq(text, 1, Len(text) - 1))
        ELSE text

Strip(text) == RStrip(LStrip(text))

\* sep.join(parts)
RECURSIVE Join(_, _)
Join(parts, sep) ==
    IF parts = <<>> THEN <<>>
    ELSE IF Len(parts) = 1 THEN parts[1]
    ELSE parts[1] \o <<sep>> \o Join(Tail(parts), sep)

\* "{key}" in a template
Placeholder(key) == "{" \o key \o "}"

\* text.replace("{key}", value)
RECURSIVE Replace(_, _, _)
Replace(text, key, value) ==
    IF text = <<>> THEN <<>>
    ELSE (IF Head(text) = Placeholder(key) THEN value ELSE <<Head(text)>>)
         \o Replace(Tail(text), key, value)

\* Keys of the values dict of _format_stage_prompt, in insertion order;
\* update() with template_values keeps the order of the keys already there,
\* and the callers pass no other key.
TemplateKeys == <<"question", "responses", "response_count", "response_labels",
                  "stage1", "stage2">>

\* _apply_prompt_template: one replace per key, in the order of the dict.
RECURSIVE ApplyFrom(_, _, _)
ApplyFrom(text, values, k) ==
    IF k > Len(TemplateKeys) THEN text
    ELSE ApplyFrom(Replace(text, TemplateKeys[k], values[TemplateKeys[k]]), values, k + 1)

_apply_prompt_template(template, values) == ApplyFrom(template, values, 1)

\* The values dict: the defaults, overridden by template_values.
PromptValues(user_query, prior_context, template_values) ==
    [key \in {TemplateKeys[k] : k \in DOMAIN TemplateKeys} |->
        IF key \in DOMAIN template_values THEN template_values[key]
        ELSE CASE key = "question" -> user_query
               [] key = "responses" -> prior_context
               [] key = "response_count" -> <<"0">>
               [] OTHER -> <<>>]

\* The labeled history block.
HistoryBlock(conversation_history) ==
    <<"=== Conversation Context ===\n">> \o conversation_history

\* prompt_parts of the empty-template fallback
FallbackParts(user_query, prior_context, conversation_history) ==
    (IF conversation_history # <<>> THEN <<HistoryBlock(conversation_history)>> ELSE <<>>)
    \o << <<"User Question: ">> \o user_query >>
    \o (IF prior_context # <<>>
        THEN << <<"Previous Stage Outputs:\n">> \o prior_context >> ELSE <<>>)

\* _format_stage_prompt: with a template, the template with its values filled
\* in is returned (prompt_parts, which holds the history block, is not used);
\* without one, the parts joined by blank lines.
_format_stage_prompt(stage_prompt, user_query, prior_context, template_values, conversation_history) ==
    IF stage_prompt # <<>>
    THEN Strip(_apply_prompt_template(Strip(stage_prompt),
                   PromptValues(user_query, prior_context, template_values)))
    ELSE Strip(Join(FallbackParts(user_query, prior_context, conversation_history),
                    "\n\n"))

\* DEFAULT_STAGE2_PROMPT and DEFAULT_STAGE3_PROMPT, by their pieces.
DEFAULT_STAGE2_PROMPT ==
    <<"You are evaluating different responses to the following question: Question: ",
      "{question}", "\n\n", "Here are the responses: ", "{responses}", "\n\n",
      "You MUST rank all ", "{response_count}", " responses: ", "{response_labels}",
      "\n\n", "Now provide your evaluation and ranking:">>

DEFAULT_STAGE3_PROMPT ==
    <<"You are the Chairman of an LLM Council. Original Question: ", "{question}",
      "\n\n", "INDIVIDUAL RESPONSES:\n", "{stage1}", "\n\n", "PEER RANKINGS:\n",
      "{stage2}", "\n\n", "Provide the final answer:">>

\* Stage prompts: none, a custom template (padded with white space), white
\* space only, and the two defaults the rankings and synthesis stages pass.
StagePrompts ==
    {<<>>, <<" ", "Answer: ", "{question}", "\n", "{responses}", "\n">>, <<" ">>,
     DEFAULT_STAGE2_PROMPT, DEFAULT_STAGE3_PROMPT}

\* User queries: plain, and one that holds a placeholder of a later key.
UserQueries == {<<"What is X?">>, <<"What is ", "{stage1}", "?">>}

PriorContexts == {<<>>, <<"Model: Alpha\nResponse: text-1">>}

\* template_values of the three callers: none (a bare call), those of
\* _collect_stage_responses, of collect_rankings and of synthesize_final.
TemplateValues(user_query, prior_context) ==
    {<<>>,
     [responses |-> prior_context, response_count |-> <<"1">>,
      response_labels |-> <<"Alpha">>, stage1 |-> prior_context, stage2 |-> <<>>],
     [question |-> user_query, responses |-> <<"Response A:\ntext-1">>,
      response_count |-> <<"1">>, response_labels |-> <<"Response A">>],
     [question |-> user_query, stage1 |-> <<"Model: Alpha\nResponse: text-1">>,
      stage2 |-> <<"Model: Beta\nRanking: Response A">>]}

\* What _format_conversation_history returns: nothing, one line, two lines.
Histories ==
    {<<>>, <<"User: ", "Earlier question">>,
     <<"User: ", "Earlier question", "\n\n", "Council: ", "Earlier answer">>}

FormatStagePromptArgs ==
    {[stage_prompt |-> sp, user_query |-> q, prior_context |-> pc,
      template_values |-> tv, conversation_history |-> h] :
        sp \in StagePrompts, q \in UserQueries, pc \in PriorContexts,
        tv \in UNION {TemplateValues(q2, pc2) : q2 \in UserQueries, pc2 \in PriorContexts},
        h \in Histories}

CallFormatStagePrompt ==
    /\ call_fn = "_format_stage_prompt" /\ call_pc = "call"
    /\ call_ret' = _format_stage_prompt(call_args.stage_prompt, call_args.user_query,
                                       call_args.prior_context, call_args.template_values,
                                       call_args.conversation_history)
    /\ call_pc' = "returned"
    /\ UNCHANGED <<call_fn, call_args>>
    /\ UNCHANGED <<streamVars, stageVars, councilVars, rankVars, convVars, settingsVars>>

(***************************************************************************)
(* Stored messages and stage entries (backend/storage.py get_conversation).*)
(* The results of a stage are a dict (synthesis, the error stage) or a     *)
(* list (responses, rankings); dict is TRUE for the first, and its one     *)
(* item is the dict.                                                       *)
(***************************************************************************)
MaxStoredStages == 3    \* stage entries of a stored council message
MaxMessages == 3        \* messages of a stored conversation

\* dict.get(key) with None and "" alike
Get(d, key) == IF key \in DOMAIN d THEN d[key] ELSE <<>>

ResultItem(model, response, ranking) ==
    [model |-> model, response |-> response, ranking |-> ranking]

ListResults(items) == [dict |-> FALSE, items |-> items]
DictResults(item) == [dict |-> TRUE, items |-> <<item>>]

StoredStage(name, prompt, kind, stage_results) ==
    [name |-> name, prompt |-> prompt, kind |-> kind, results |-> stage_results]

\* Stage entries run_full_council produces: a responses stage (one member
\* answered, one failed), a responses stage nobody answered, a rankings
\* stage, a rankings stage with nothing to rank, two synthesis stages of
\* different chairmen, and the error stage.
ResponsesStage ==
    StoredStage("Individual Responses", <<"Answer: ", "{question}">>, "responses",
        ListResults(<<ResultItem("Alpha", <<"text-1">>, <<>>),
                      ResultItem("Beta", <<>>, <<>>)>>))

FailedResponsesStage ==
    StoredStage("Individual Responses", <<>>, "responses",
        ListResults(<<ResultItem("Alpha", <<>>, <<>>)>>))

RankingsStage ==
    StoredStage("Peer Rankings", <<>>, "rankings",
        ListResults(<<ResultItem("Beta", <<>>, <<"FINAL RANKING:", "1. Response A">>)>>))

EmptyRankingsStage == StoredStage("Peer Rankings", <<>>, "rankings", ListResults(<<>>))

SynthesisStage(label, text) ==
    StoredStage("Final Synthesis", <<>>, "synthesis",
        DictResults(ResultItem(label, text, <<>>)))

StoredErrorStage ==
    StoredStage("Council Error", <<>>, "synthesis",
        DictResults(ResultItem("error",
            <<"All models failed to respond. Please try again.">>, <<>>)))

StoredStages ==
    {ResponsesStage, FailedResponsesStage, RankingsStage, EmptyRankingsStage,
     SynthesisStage("Chairman", <<"final-1">>),
     SynthesisStage("Alpha", <<"final-2", "\n">>)}

\* Stage lists of up to n entries, the error stage only as the last one.
RECURSIVE StoredStageLists(_)
StoredStageLists(n) ==
    IF n = 0 THEN {<<>>}
    ELSE {<<>>} \cup {Append(t, st) : t \in {u \in StoredStageLists(n - 1) :
                                              u = <<>> \/ u[Len(u)] # StoredErrorStage},
                                     st \in StoredStages \cup {StoredErrorStage}}

\* Mutant of get_final_response: the stages are scanned first to last.
RECURSIVE ForwardFinalResponse(_)
ForwardFinalResponse(stages) ==
    IF stages = <<>> THEN <<>>
    ELSE LET stage_results == Head(stages).results
         IN IF stage_results.dict /\ Get(stage_results.items[1], "response") # <<>>
            THEN stage_results.items[1]
            ELSE ForwardFinalResponse(Tail(stages))

\* get_final_response: the stages are scanned last to first; the first
\* results that are a dict with a response are returned, else {}.
RECURSIVE get_final_response(_)
get_final_response(stages) ==
    IF stages = <<>> THEN <<>>
    ELSE LET stage_results == stages[Len(stages)].results
         IN IF stage_results.dict /\ Get(stage_results.items[1], "response") # <<>>
            THEN stage_results.items[1]
            ELSE get_final_response(SubSeq(stages, 1, Len(stages) - 1))

CallGetFinalResponse ==
    /\ call_fn = "get_final_response" /\ call_pc = "call"
    /\ call_ret' = get_final_response(call_args.stages)
    /\ call_pc' = "returned"
    /\ UNCHANGED <<call_fn, call_args>>
    /\ UNCHANGED <<streamVars, stageVars, councilVars, rankVars, convVars, settingsVars>>

\* Stored messages, as get_conversation returns them.
UserMessage(content) == [role |-> "user", content |-> content]
SpeakerMessage(response) ==
    [role |-> "assistant", message_type |-> "speaker", response |-> response]
CouncilMessage(stages) ==
    [role |-> "assistant", message_type |-> "council", stages |-> stages]

IsCouncil(msg) == msg.role = "assistant" /\ msg.message_type = "council"

\* _collect_context_entries: user and speaker texts stripped, empty ones
\* dropped; a council message is skipped, replaced by the placeholder, or
\* represented by its final synthesis.
ContextEntry(msg, council_assistant_mode) ==
    IF msg.role = "user"
    THEN IF Strip(msg.content) # <<>>
         THEN <<[role |-> "user", source |-> "user", content |-> Strip(msg.content)]>>
         ELSE <<>>
    ELSE IF msg.message_type = "speaker"
    THEN IF Strip(msg.response) # <<>>
         THEN <<[role |-> "assistant", source |-> "speaker",
                 content |-> Strip(msg.response)]>>
         ELSE <<>>
    ELSE CASE council_assistant_mode = "skip" -> <<>>
           [] council_assistant_mode = "placeholder" ->
                <<[role |-> "assistant", source |-> "council",
                   content |-> <<"[Council Analysis - see above]">>]>>
           [] OTHER ->
                LET content == Strip(Get(get_final_response(msg.stages), "response"))
                IN IF content # <<>>
                   THEN <<[role |-> "assistant", source |-> "council", content |-> content]>>
                   ELSE <<>>

RECURSIVE _collect_context_entries(_, _)
_collect_context_entries(conversation_messages, council_assistant_mode) ==
    IF conversation_messages = <<>> THEN <<>>
    ELSE ContextEntry(Head(conversation_messages), council_assistant_mode)
         \o _collect_context_entries(Tail(conversation_messages), council_assistant_mode)

\* Mutant of FirstCouncilMessage: the latest council message is taken.
LastCouncilMessage(conversation_messages) ==
    LET at == {i \in DOMAIN conversation_messages : IsCouncil(conversation_messages[i])}
    IN IF at = {} THEN <<>>
       ELSE conversation_messages[CHOOSE i \in at : \A j \in at : j <= i]

\* The loop of _build_speaker_context that finds council_response: it breaks
\* at the first council message.
RECURSIVE FirstCouncilMessage(_)
FirstCouncilMessage(conversation_messages) ==
    IF conversation_messages = <<>> THEN <<>>
    ELSE IF IsCouncil(Head(conversation_messages)) THEN Head(conversation_messages)
    ELSE FirstCouncilMessage(Tail(conversation_messages))

\* "Council's Initial Analysis" of the minimal and standard levels.
InitialAnalysis(stages) ==
    IF Get(get_final_response(stages), "response") # <<>>
    THEN << <<"Council's Initial Analysis:\n">>
            \o Get(get_final_response(stages), "response") >>
    ELSE <<>>

\* stage_text of one result of the full level.
ResultText(result) ==
    <<"\n\n[", result.model, "]:\n">>
    \o (IF result.response # <<>> THEN result.response ELSE result.ranking)

RECURSIVE ResultTexts(_)
ResultTexts(items) ==
    IF items = <<>> THEN <<>> ELSE ResultText(Head(items)) \o ResultTexts(Tail(items))

\* stage_text of one stage of the full level.  (The stage prompts drawn here
\* are shorter than the 500 characters after which a prompt is cut.)
StageText(stage) ==
    <<"=== ", stage.name, " ===">>
    \o (IF stage.prompt # <<>> THEN <<"\nPrompt: ">> \o stage.prompt ELSE <<>>)
    \o (IF stage.results.dict
        THEN <<"\n\n[", stage.results.items[1].model, "]:\n">>
             \o stage.results.items[1].response
        ELSE ResultTexts(stage.results.items))

StageTexts(stages) == [k \in DOMAIN stages |-> StageText(stages[k])]

\* conv_history of the full level.
HistoryLine(entry) ==
    CASE entry.source = "user" -> <<"User: ">> \o entry.content
      [] entry.source = "speaker" -> <<"Speaker: ">> \o entry.content
      [] OTHER -> <<"Assistant: ">> \o entry.content

ConversationHistory(lines) ==
    IF lines # <<>>
    THEN << <<"=== Conversation History ===\n">> \o Join(lines, "\n\n") >>
    ELSE <<>>

UserQueryBlock(user_queries) ==
    IF user_queries # <<>>
    THEN << <<"User Queries:\n">> \o Join(user_queries, "\n---\n") >>
    ELSE <<>>

ContextLevels == {"minimal", "standard", "full"}

\* _build_speaker_context
_build_speaker_context(conversation_messages, context_level) ==
    LET council_response == FirstCouncilMessage(conversation_messages)
    IN IF council_response = <<>> THEN <<>>
       ELSE Join(
           CASE context_level = "minimal" -> InitialAnalysis(council_response.stages)
             [] context_level = "standard" ->
                  InitialAnalysis(council_response.stages)
                  \o UserQueryBlock(
                         LET entries == SelectSeq(
                                 _collect_context_entries(conversation_messages, "skip"),
                                 LAMBDA e : e.source = "user")
                         IN [k \in DOMAIN entries |-> entries[k].content])
             [] context_level = "full" ->
                  StageTexts(council_response.stages)
                  \o ConversationHistory(
                         LET entries == _collect_context_entries(conversation_messages,
                                                                 "placeholder")
                         IN [k \in DOMAIN entries |-> HistoryLine(entries[k])])
             [] OTHER -> <<>>,
           "\n\n")

\* _legacy_build_speaker_context of tests/test_compaction_foundation.py: the
\* user contents and speaker responses are taken as they are stored.
LegacyHistoryLine(msg) ==
    IF msg.role = "user" THEN <<"User: ">> \o msg.content
    ELSE IF msg.message_type = "speaker" THEN <<"Speaker: ">> \o msg.response
    ELSE <<"Assistant: ", "[Council Analysis - see above]">>

_legacy_build_speaker_context(conversation_messages, context_level) ==
    LET council_response == FirstCouncilMessage(conversation_messages)
    IN IF council_response = <<>> THEN <<>>
       ELSE Join(
           CASE context_level = "minimal" -> InitialAnalysis(council_response.stages)
             [] context_level = "standard" ->
                  InitialAnalysis(council_response.stages)
                  \o UserQueryBlock(
                         LET users == SelectSeq(conversation_messages,
                                                LAMBDA m : m.role = "user")
                         IN [k \in DOMAIN users |-> users[k].content])
             [] context_level = "full" ->
                  StageTexts(council_response.stages)
                  \o ConversationHistory(
                         [k \in DOMAIN conversation_messages |->
                             LegacyHistoryLine(conversation_messages[k])])
             [] OTHER -> <<>>,
           "\n\n")

\* Stage lists of stored council messages: a default pipeline, another with
\* another synthesis, and one without a synthesis stage.
CouncilStageLists ==
    {<<ResponsesStage, RankingsStage, SynthesisStage("Chairman", <<"final-1">>)>>,
     <<ResponsesStage, SynthesisStage("Alpha", <<"final-2", "\n">>)>>,
     <<ResponsesStage>>}

\* Stored messages: user messages (plain, padded with white space, empty),
\* speaker replies (plain, ending in a newline) and council messages.
StoredMessages ==
    {UserMessage(<<"Question 1">>), UserMessage(<<" ", "Follow-up", "\n">>),
     UserMessage(<<>>),
     SpeakerMessage(<<"Speaker answer">>), SpeakerMessage(<<"Speaker answer 2", "\n">>)}
    \cup {CouncilMessage(stages) : stages \in CouncilStageLists}

RECURSIVE Conversations(_)
Conversations(n) ==
    IF n = 0 THEN {<<>>}
    ELSE {<<>>} \cup {<<msg>> \o t : msg \in StoredMessages, t \in Conversations(n - 1)}

CallBuildSpeakerContext ==
    /\ call_fn = "_build_speaker_context" /\ call_pc = "call"
    /\ call_ret' = _build_speaker_context(call_args.conversation_messages,
                                         call_args.context_level)
    /\ call_pc' = "returned"
    /\ UNCHANGED <<call_fn, call_args>>
    /\ UNCHANGED <<streamVars, stageVars, councilVars, rankVars, convVars, settingsVars>>

(***************************************************************************)
(* _validate_council_settings (backend/main.py)                            *)
(***************************************************************************)
MaxPayloadStages == 2   \* stages of a settings payload

MAX_COUNCIL_MEMBERS == 64
MAX_STAGE_MEMBERS == 6

\* Models list_converse_models_for_region returns for the region.
AllowedModels == {ModelOf(1), ModelOf(2)}

\* A member of the payload.  Whether max_output_tokens lies in the allowed
\* range and the system prompt within MAX_SYSTEM_PROMPT_CHARS is kept as the
\* outcome of the comparison.
PayloadMember(id, alias, model_id, tokens_ok, prompt_ok) ==
    [id |-> id, alias |-> alias, model_id |-> model_id,
     tokens_ok |-> tokens_ok, prompt_ok |-> prompt_ok]

\* alias.strip()
StripAlias(alias) == IF alias \in Whitespace THEN "" ELSE alias

\* A stage of the payload (CouncilStageConfig.model_dump()); kind None is "".
PayloadStage(id, name, kind, member_ids) ==
    [id |-> id, name |-> name, kind |-> kind, member_ids |-> member_ids]

\* A stage with every field of CouncilStageConfig; an empty prompt is <<>>.
SettingsStage(id, name, kind, prompt, execution_mode, member_ids) ==
    [id |-> id, name |-> name, kind |-> kind, prompt |-> prompt,
     execution_mode |-> execution_mode, member_ids |-> member_ids]

\* The ids of the members that have one (no id is 0).
IdsOf(members) ==
    SelectSeq([i \in DOMAIN members |-> members[i].id], LAMBDA id : id # 0)

\* build_default_stages, for the members of the payload and its chairman_id.
build_default_stages(members, chairman_id) ==
    LET member_ids == IdsOf(members)
        default_chairman ==
            IF \E i \in DOMAIN member_ids : member_ids[i] = chairman_id
            THEN <<chairman_id>>
            ELSE IF member_ids # <<>> THEN <<member_ids[1]>> ELSE <<>>
    IN <<SettingsStage("stage-1", "Individual Responses", "responses", <<>>,
                       "parallel", member_ids),
         SettingsStage("stage-2", "Peer Rankings", "rankings", DEFAULT_STAGE2_PROMPT,
                       "parallel", member_ids),
         SettingsStage("stage-3", "Final Synthesis", "synthesis", DEFAULT_STAGE3_PROMPT,
                       "sequential", default_chairman)>>

IsInjective(seq) == \A i, j \in DOMAIN seq : seq[i] = seq[j] => i = j

\* The loop over the members: the first member at fault adds one error and
\* ends the loop.
RECURSIVE MemberErrors(_)
MemberErrors(members) ==
    IF members = <<>> THEN <<>>
    ELSE LET member == Head(members)
         IN IF member.model_id \notin AllowedModels
                THEN <<"Unsupported model for region">>
            ELSE IF ~member.tokens_ok THEN <<"max_output_tokens out of range">>
            ELSE IF ~member.prompt_ok THEN <<"System prompt too long">>
            ELSE MemberErrors(Tail(members))

\* Mutant of StageError: the number of members of a stage is not limited.
StageErrorWithoutLimit(stage, ids) ==
    IF StripAlias(stage.name) = "" THEN <<"Stage names cannot be empty.">>
    ELSE IF stage.kind \notin {"", "responses", "rankings", "synthesis"}
        THEN <<"Stage has invalid kind.">>
    ELSE IF stage.member_ids = <<>>
        THEN <<"Stage must include at least one member.">>
    ELSE IF \E k \in DOMAIN stage.member_ids :
                \A i \in DOMAIN ids : ids[i] # stage.member_ids[k]
        THEN <<"Stage references unknown members.">>
    ELSE IF stage.kind = "synthesis" /\ Len(stage.member_ids) # 1
        THEN <<"Synthesis stage must include exactly one member (chairman).">>
    ELSE <<>>

\* The checks of one stage, in the order of the loop body; <<>> if it passes.
StageError(stage, ids) ==
    IF StripAlias(stage.name) = "" THEN <<"Stage names cannot be empty.">>
    ELSE IF stage.kind \notin {"", "responses", "rankings", "synthesis"}
        THEN <<"Stage has invalid kind.">>
    ELSE IF stage.member_ids = <<>>
        THEN <<"Stage must include at least one member.">>
    ELSE IF Len(stage.member_ids) > MAX_STAGE_MEMBERS
        THEN <<"Stage exceeds max members.">>
    ELSE IF \E k \in DOMAIN stage.member_ids :
                \A i \in DOMAIN ids : ids[i] # stage.member_ids[k]
        THEN <<"Stage references unknown members.">>
    ELSE IF stage.kind = "synthesis" /\ Len(stage.member_ids) # 1
        THEN <<"Synthesis stage must include exactly one member (chairman).">>
    ELSE <<>>

\* The loop over the stages: the first stage at fault adds one error and ends
\* the loop; a synthesis stage that passed the checks before the last one is
\* recorded in synthesis_stage_indexes (by its index from 0).
RECURSIVE StageLoop(_, _, _, _, _)
StageLoop(stages, ids, k, errors, synthesis_stage_indexes) ==
    IF k > Len(stages)
    THEN [errors |-> errors, synthesis_stage_indexes |-> synthesis_stage_indexes]
    ELSE LET err == StageError(stages[k], ids)
             recorded ==
                 IF /\ stages[k].kind = "synthesis"
                    /\ err \in {<<>>, <<"Synthesis stage must include exactly one member (chairman).">>}
                 THEN Append(synthesis_stage_indexes, k - 1)
                 ELSE synthesis_stage_indexes
         IN IF err # <<>>
            THEN [errors |-> errors \o err, synthesis_stage_indexes |-> recorded]
            ELSE StageLoop(stages, ids, k + 1, errors, recorded)

\* The checks after the loop.
SynthesisErrors(stages, synthesis_stage_indexes) ==
    IF synthesis_stage_indexes = <<>>
    THEN IF stages # <<>>
         THEN IF Len(stages[Len(stages)].member_ids) # 1
              THEN <<"Final stage must include exactly one member (chairman).">>
              ELSE <<>>
         ELSE <<"At least one stage is required.">>
    ELSE IF Len(synthesis_stage_indexes) > 1
         THEN <<"Only one synthesis stage is allowed.">>
    ELSE IF synthesis_stage_indexes[1] # Len(stages) - 1
         THEN <<"Synthesis stage must be the final stage.">>
    ELSE <<>>

\* _validate_council_settings: the list of errors, in the order they are
\* appended.
_validate_council_settings(payload) ==
    LET members == payload.members
        ids == [i \in DOMAIN members |-> members[i].id]
        stages == IF payload.stages # <<>> THEN payload.stages
                  ELSE build_default_stages(members, payload.chairman_id)
        loop == StageLoop(stages, ids, 1, <<>>, <<>>)
    IN (IF members = <<>> THEN <<"At least one council member is required.">> ELSE <<>>)
       \o (IF Len(members) > MAX_COUNCIL_MEMBERS
           THEN <<"Maximum council members allowed.">> ELSE <<>>)
       \o (IF ~IsInjective(ids) THEN <<"Member IDs must be unique.">> ELSE <<>>)
       \o (IF \E i \in DOMAIN members : StripAlias(members[i].alias) = ""
           THEN <<"Member aliases cannot be empty.">> ELSE <<>>)
       \o MemberErrors(members)
       \o (IF payload.title_model_id \notin AllowedModels
           THEN <<"Unsupported title model for region">> ELSE <<>>)
       \o (IF payload.speaker_context_level \notin ContextLevels
           THEN <<"Invalid chairman context level.">> ELSE <<>>)
       \o (IF Len(stages) > MAX_COUNCIL_STAGES
           THEN <<"Maximum stages allowed.">> ELSE <<>>)
       \o (IF ~IsInjective([k \in DOMAIN stages |-> stages[k].id])
           THEN <<"Stage IDs must be unique.">> ELSE <<>>)
       \o loop.errors
       \o SynthesisErrors(stages, loop.synthesis_stage_indexes)

\* n times the same member id
Repeat(id, n) == [k \in 1..n |-> id]

\* member_ids of a payload stage: none, one, two, one of them unknown (9),
\* as many as allowed and one more than allowed.
PayloadMemberIds ==
    {<<>>, <<1>>, <<2, 1>>, <<1, 9>>,
     Repeat(1, MAX_STAGE_MEMBERS), Repeat(1, MAX_STAGE_MEMBERS + 1)}

\* Stages of a payload at position k: every kind (also none) with every
\* member list, and a stage with a blank name; all stages share one id when
\* same_ids is set.
PayloadStagesAt(k, same_ids) ==
    LET id == IF same_ids THEN "stage" ELSE <<"stage-1", "stage-2", "stage-3", "stage-4">>[k]
    IN {PayloadStage(id, "Stage", kind, ids) :
            kind \in {"", "responses", "rankings", "synthesis"}, ids \in PayloadMemberIds}
       \cup {PayloadStage(id, " ", "responses", <<1>>)}

RECURSIVE PayloadStageLists(_, _)
PayloadStageLists(n, same_ids) ==
    IF n = 0 THEN {<<>>}
    ELSE {<<>>} \cup {Append(t, st) : t \in {u \in PayloadStageLists(n - 1, same_ids) :
                                                Len(u) = n - 1},
                                      st \in PayloadStagesAt(n, same_ids)}
                \cup PayloadStageLists(n - 1, same_ids)

\* The rest of a payload: members, title model and context level without
\* fault; two members of one id, one of them with a blank alias, and a title
\* model and a level that are not allowed; no member; a member whose model is
\* not allowed after one whose max_output_tokens is out of range.
PayloadHeads ==
    {[members |-> <<PayloadMember(1, "Alpha", ModelOf(1), TRUE, TRUE),
                    PayloadMember(2, "Beta", ModelOf(2), TRUE, TRUE)>>,
      chairman_id |-> 1, title_model_id |-> ModelOf(1), speaker_context_level |-> "full"],
     [members |-> <<PayloadMember(1, "Alpha", ModelOf(1), TRUE, TRUE),
                    PayloadMember(1, " ", ModelOf(2), TRUE, FALSE)>>,
      chairman_id |-> 2, title_model_id |-> ModelOf(3), speaker_context_level |-> "verbose"],
     [members |-> <<>>,
      chairman_id |-> 0, title_model_id |-> ModelOf(1), speaker_context_level |-> "minimal"],
     [members |-> <<PayloadMember(1, "Alpha", ModelOf(1), FALSE, TRUE),
                    PayloadMember(2, "Beta", ModelOf(3), TRUE, TRUE)>>,
      chairman_id |-> 1, title_model_id |-> ModelOf(2), speaker_context_level |-> "standard"]}

Payload(head, stages) ==
    [members |-> head.members, chairman_id |-> head.chairman_id,
     title_model_id |-> head.title_model_id,
     speaker_context_level |-> head.speaker_context_level, stages |-> stages]

CallValidateCouncilSettings ==
    /\ call_fn = "_validate_council_settings" /\ call_pc = "call"
    /\ call_ret' = _validate_council_settings(call_args.payload)
    /\ call_pc' = "returned"
    /\ UNCHANGED <<call_fn, call_args>>
    /\ UNCHANGED <<streamVars, stageVars, councilVars, rankVars, convVars, settingsVars>>

(***************************************************************************)
(* select_messages_for_rollup (backend/compaction.py).  A message is its   *)
(* id and its role; None is the empty tuple and an id n the tuple <<n>>.   *)
(***************************************************************************)
MaxRollupMessages == 4   \* messages of the conversation handed over
MaxRecentTurns == 2      \* recent_turns

RollupMessage(id, role) == [id |-> id, role |-> role]

\* candidates: the messages whose id is greater than the watermark
Candidates(messages, compacted_until_message_id) ==
    SelectSeq(messages,
        LAMBDA m : compacted_until_message_id = <<>>
                   \/ m.id > compacted_until_message_id[1])

\* user_positions, 1-based
UserPositions(candidates) ==
    SelectSeq([k \in 1..Len(candidates) |-> k], LAMBDA k : candidates[k].role = "user")

\* Mutant of KeepStart: only the most recent user turn is kept.
KeepStartAtLastUser(candidates, recent_turns) ==
    LET safe_recent_turns == IF recent_turns < 0 THEN 0 ELSE recent_turns
        user_positions == UserPositions(candidates)
    IN IF safe_recent_turns <= 0 THEN Len(candidates) + 1
       ELSE IF Len(user_positions) <= safe_recent_turns THEN 1
       ELSE user_positions[Len(user_positions)]

\* keep_start, 1-based: the position the kept suffix starts at
KeepStart(candidates, recent_turns) ==
    LET safe_recent_turns == IF recent_turns < 0 THEN 0 ELSE recent_turns
        user_positions == UserPositions(candidates)
    IN IF safe_recent_turns <= 0 THEN Len(candidates) + 1
       ELSE IF Len(user_positions) <= safe_recent_turns THEN 1
       ELSE user_positions[Len(user_positions) - safe_recent_turns + 1]

MaxId(msgs) == CHOOSE n \in {msgs[k].id : k \in DOMAIN msgs} :
                  \A k \in DOMAIN msgs : msgs[k].id <= n

select_messages_for_rollup(messages, compacted_until_message_id, recent_turns) ==
    LET candidates == Candidates(messages, compacted_until_message_id)
        keep_start == KeepStart(candidates, recent_turns)
        rollup == SubSeq(candidates, 1, keep_start - 1)
        keep == SubSeq(candidates, keep_start, Len(candidates))
    IN IF candidates = <<>>
       THEN [messages_to_rollup |-> <<>>, messages_to_keep |-> <<>>,
             next_compacted_until_message_id |-> compacted_until_message_id]
       ELSE [messages_to_rollup |-> rollup, messages_to_keep |-> keep,
             next_compacted_until_message_id |->
                 IF rollup # <<>> THEN <<MaxId(rollup)>>
                 ELSE compacted_until_message_id]

\* Message rows as storage returns them: ids ascending, not every id present.
RECURSIVE RollupRows(_, _)
RollupRows(n, from) ==
    IF n = 0 THEN {<<>>}
    ELSE {<<>>} \cup
         UNION {{<<RollupMessage(id, role)>> \o t :
                    role \in {"user", "assistant"}, t \in RollupRows(n - 1, id + 1)} :
                id \in from..(MaxRollupMessages + 1)}

Watermarks(n) == {<<>>} \cup {<<k>> : k \in 0..n}

CallSelectMessagesForRollup ==
    /\ call_fn = "select_messages_for_rollup" /\ call_pc = "call"
    /\ call_ret' = select_messages_for_rollup(call_args.messages,
                        call_args.compacted_until_message_id, call_args.recent_turns)
    /\ call_pc' = "returned"
    /\ UNCHANGED <<call_fn, call_args>>
    /\ UNCHANGED <<streamVars, stageVars, councilVars, rankVars, convVars, settingsVars>>

CallInit ==
    /\ call_pc = "call" /\ call_ret = <<>>
    /\ \/ /\ call_fn = "_format_stage_prompt"
          /\ call_args \in FormatStagePromptArgs
       \/ /\ call_fn = "get_final_response"
          /\ call_args \in {[stages |-> st] : st \in StoredStageLists(MaxStoredStages)}
       \/ /\ call_fn = "_build_speaker_context"
          /\ call_args \in {[conversation_messages |-> ms, context_level |-> lv] :
                                ms \in Conversations(MaxMessages), lv \in ContextLevels}
       \/ /\ call_fn = "_validate_council_settings"
          /\ \E same_ids \in BOOLEAN :
                call_args \in {[payload |-> Payload(head, st)] :
                                  head \in PayloadHeads,
                                  st \in PayloadStageLists(MaxPayloadStages, same_ids)}
       \/ /\ call_fn = "select_messages_for_rollup"
          /\ call_args \in {[messages |-> ms, compacted_until_message_id |-> w,
                              recent_turns |-> rt] :
                                ms \in RollupRows(MaxRollupMessages, 1),
                                w \in Watermarks(MaxRollupMessages + 1),
                                rt \in (-1)..MaxRecentTurns}
    /\ StreamParked /\ StageParked /\ CouncilParked /\ RankParked /\ ConvParked
    /\ SettingsParked

CallNext ==
    \/ CallFormatStagePrompt
    \/ CallGetFinalResponse
    \/ CallBuildSpeakerContext
    \/ CallValidateCouncilSettings
    \/ CallSelectMessagesForRollup

SpecCalls == CallInit /\ [][CallNext]_vars

(***************************************************************************)
(* Claims about the functions over stored data.                            *)
(***************************************************************************)
CallReturned(fn) == call_fn = fn /\ call_pc = "returned"

StartsWith(text, prefix) ==
    Len(text) >= Len(prefix) /\ SubSeq(text, 1, Len(prefix)) = prefix

\* C21: whenever a conversation history is supplied, the composed prompt
\* starts with the labeled history block, with a template (custom or
\* default) as well as without one.
C21_PromptStartsWithHistory ==
    (CallReturned("_format_stage_prompt") /\ call_args.conversation_history # <<>>)
        => StartsWith(call_ret, HistoryBlock(call_args.conversation_history))

\* The half of C21 that holds: the empty-template fallback starts with the
\* history block.
FallbackStartsWithHistory ==
    (/\ CallReturned("_format_stage_prompt")
     /\ call_args.conversation_history # <<>>
     /\ call_args.stage_prompt = <<>>)
        => StartsWith(call_ret, HistoryBlock(call_args.conversation_history))

\* Stages (by position) stored with kind synthesis.
SynthesisStagesOf(stages) == {k \in DOMAIN stages : stages[k].kind = "synthesis"}

\* C22: get_final_response returns the results of the last stage of kind
\* synthesis, and the empty result when no stage of kind synthesis holds a
\* response.
C22_LastSynthesisResult ==
    CallReturned("get_final_response") =>
        LET stages == call_args.stages
            synthesis == SynthesisStagesOf(stages)
        IN /\ synthesis # {} =>
                  call_ret = stages[CHOOSE k \in synthesis : \A j \in synthesis : j <= k]
                                 .results.items[1]
           /\ (\A k \in synthesis : stages[k].results.items[1].response = <<>>)
                  => call_ret = <<>>

\* Two synthesis stages of different results, followed by a stage of another
\* kind.
C22_Witness ==
    /\ CallReturned("get_final_response")
    /\ Len(call_args.stages) = 3
    /\ SynthesisStagesOf(call_args.stages) = {1, 2}
    /\ call_args.stages[1].results # call_args.stages[2].results
    /\ call_ret = call_args.stages[2].results.items[1]

\* Positions of the council messages of a conversation.
CouncilPositions(conversation_messages) ==
    {i \in DOMAIN conversation_messages : IsCouncil(conversation_messages[i])}

\* The conversation with the stages of every council message but the one at
\* the given position removed.
OnlyStagesOf(conversation_messages, first) ==
    [i \in DOMAIN conversation_messages |->
        IF IsCouncil(conversation_messages[i]) /\ i # first
        THEN CouncilMessage(<<>>) ELSE conversation_messages[i]]

\* C23: at every level the stage detail and the final synthesis of the
\* context are those of the first council message: the context starts with
\* them and does not change when the stages of every later council message
\* are removed; without a council message the context is the empty string.
C23_FirstCouncilMessageOnly ==
    CallReturned("_build_speaker_context") =>
        LET conversation_messages == call_args.conversation_messages
            at == CouncilPositions(conversation_messages)
        IN IF at = {} THEN call_ret = <<>>
           ELSE LET first == CHOOSE i \in at : \A j \in at : i <= j
                    stages == conversation_messages[first].stages
                IN /\ call_ret = _build_speaker_context(
                                     OnlyStagesOf(conversation_messages, first),
                                     call_args.context_level)
                   /\ StartsWith(call_ret,
                          IF call_args.context_level = "full"
                          THEN Join(StageTexts(stages), "\n\n")
                          ELSE Join(InitialAnalysis(stages), "\n\n"))

\* Two council messages of different final synthesis, the first after a user
\* message.
C23_Witness ==
    /\ CallReturned("_build_speaker_context")
    /\ \E i, j \in CouncilPositions(call_args.conversation_messages) :
           /\ 1 < i /\ i < j
           /\ get_final_response(call_args.conversation_messages[i].stages) # <<>>
           /\ get_final_response(call_args.conversation_messages[j].stages) # <<>>
           /\ get_final_response(call_args.conversation_messages[i].stages)
                  # get_final_response(call_args.conversation_messages[j].stages)
    /\ call_ret # <<>>

\* C24: at every level _build_speaker_context returns the text the legacy
\* assembler returns for the same messages.
C24_MatchesLegacy ==
    CallReturned("_build_speaker_context") =>
        call_ret = _legacy_build_speaker_context(call_args.conversation_messages,
                                                 call_args.context_level)

\* A user content or speaker response that strip() leaves as it is and that
\* is not empty.
PlainText(msg) ==
    IF msg.role = "user" THEN msg.content # <<>> /\ Strip(msg.content) = msg.content
    ELSE IF msg.message_type = "speaker"
        THEN msg.response # <<>> /\ Strip(msg.response) = msg.response
    ELSE TRUE

\* What holds of C24: the two agree at the minimal level, and at every level
\* when no stored text is empty or padded with white space.
MatchesLegacyOnPlainTexts ==
    (/\ CallReturned("_build_speaker_context")
     /\ \/ call_args.context_level = "minimal"
        \/ \A i \in DOMAIN call_args.conversation_messages :
               PlainText(call_args.conversation_messages[i]))
        => call_ret = _legacy_build_speaker_context(call_args.conversation_messages,
                                                    call_args.context_level)

\* A stage of the payload that lists more than MAX_STAGE_MEMBERS member ids,
\* lists none, or lists an id that is not the id of a member.
FaultyStage(stage, members) ==
    \/ Len(stage.member_ids) > MAX_STAGE_MEMBERS
    \/ stage.member_ids = <<>>
    \/ \E k \in DOMAIN stage.member_ids :
           \A i \in DOMAIN members : members[i].id # stage.member_ids[k]

MAX_FOLLOW_UP_MESSAGES == 20
MAX_CHAT_MESSAGES == 50

MaxStartTurns == 50   \* completed turns a conversation starts with
MaxRequests == 3      \* requests received on the conversation

\* sum(1 for msg in messages if msg.get("role") == "user")
UserCount(messages) ==
    Cardinality({k \in DOMAIN messages : messages[k].role = "user"})

\* calculate_council_output_count: the results of every stage of every
\* council message, a list counted by its length and a dict as one.
RECURSIVE StageOutputCount(_)
StageOutputCount(stages) ==
    IF stages = <<>> THEN 0
    ELSE (IF Head(stages).results.dict THEN 1
          ELSE Len(Head(stages).results.items))
         + StageOutputCount(Tail(stages))

RECURSIVE calculate_council_output_count(_)
calculate_council_output_count(messages) ==
    IF messages = <<>> THEN 0
    ELSE (IF IsCouncil(Head(messages))
          THEN StageOutputCount(Head(messages).stages) ELSE 0)
         + calculate_council_output_count(Tail(messages))

Max0(n) == IF n < 0 THEN 0 ELSE n

_calculate_chat_remaining(messages) == Max0(MAX_CHAT_MESSAGES - UserCount(messages))

\* What the awaited calls return: the stages of run_full_council (a pipeline
\* that answered, one in which every member failed) and the reply text of
\* query_normal_chat / query_council_speaker.
CouncilRuns ==
    {<<ResponsesStage, SynthesisStage("Chairman", <<"final-1">>)>>,
     <<FailedResponsesStage, StoredErrorStage>>}

RequestContent == <<"Question 1">>
ReplyText == <<"Speaker answer">>

\* storage.add_user_message, add_speaker_message, add_assistant_message
add_user_message(messages, content) == Append(messages, UserMessage(content))
add_speaker_message(messages, response) == Append(messages, SpeakerMessage(response))
add_assistant_message(messages, stages) == Append(messages, CouncilMessage(stages))

\* storage.delete_last_assistant_message: the row of role assistant with the
\* greatest id is deleted, wherever it stands.
LastWithRole(messages, role) ==
    LET at == {k \in DOMAIN messages : messages[k].role = role}
    IN IF at = {} THEN 0 ELSE CHOOSE k \in at : \A j \in at : j <= k

RemoveAt(messages, k) ==
    [j \in 1..(Len(messages) - 1) |-> IF j < k THEN messages[j] ELSE messages[j + 1]]

delete_last_assistant_message(messages) ==
    LET k == LastWithRole(messages, "assistant")
    IN IF k = 0 THEN messages ELSE RemoveAt(messages, k)

\* Conversations the handlers have completed: in chat mode user and speaker
\* rows in turn, in council mode a council turn followed by speaker turns.
\* A conversation starts within the limits of its mode.
RECURSIVE Turns(_, _)
Turns(mode, n) ==
    IF n = 0 THEN <<>>
    ELSE Turns(mode, n - 1) \o
         <<UserMessage(RequestContent),
           IF mode = "council" /\ n = 1
           THEN CouncilMessage(<<ResponsesStage, SynthesisStage("Chairman", <<"final-1">>)>>)
           ELSE SpeakerMessage(ReplyText)>>

ConvInit ==
    /\ conv_mode \in {"chat", "council"}
    /\ \E n \in 0..MaxStartTurns :
          /\ conv_mode = "chat" => n <= MAX_CHAT_MESSAGES
          /\ conv_mode = "council" =>
                Max0(n - 1) <= MAX_FOLLOW_UP_MESSAGES
                    + calculate_council_output_count(Turns(conv_mode, n))
          /\ conv_messages = Turns(conv_mode, n)
    /\ conv_op = "idle" /\ conv_branch = "none"
    /\ conv_response = <<>> /\ conv_requests = 0
    /\ StreamParked /\ StageParked /\ CouncilParked /\ RankParked /\ CallParked
    /\ SettingsParked

Rejected(detail, maximum) == [status |-> 400, detail |-> detail, maximum |-> maximum]

\* The checks send_message and send_message_stream both make before anything
\* is stored: the chat-mode limit, and on the first message the start-up
\* model validation.
ChatLimitReached ==
    conv_mode = "chat" /\ UserCount(conv_messages) >= MAX_CHAT_MESSAGES

Branch(is_first_message, force_council) ==
    IF conv_mode = "chat" THEN "chat"
    ELSE IF is_first_message \/ force_council THEN "council" ELSE "speaker"

\* send_message up to its awaited model call.
SendMessage(force_council, models_valid) ==
    LET is_first_message == Len(conv_messages) = 0
        messages == add_user_message(conv_messages, RequestContent)
        dynamic_limit == MAX_FOLLOW_UP_MESSAGES + calculate_council_output_count(messages)
        used_followups == Max0(UserCount(messages) - 1)
    IN
    /\ conv_op = "idle" /\ conv_requests < MaxRequests
    /\ conv_requests' = conv_requests + 1
    /\ IF ChatLimitReached
       THEN /\ conv_response' = Rejected("chat limit", MAX_CHAT_MESSAGES)
            /\ UNCHANGED <<conv_messages, conv_op, conv_branch>>
       ELSE IF is_first_message /\ ~models_valid
       THEN /\ conv_response' = Rejected("startup models", 0)
            /\ UNCHANGED <<conv_messages, conv_op, conv_branch>>
       ELSE /\ conv_messages' = messages
            /\ IF Branch(is_first_message, force_council) = "speaker"
                  /\ used_followups >= dynamic_limit
               THEN /\ conv_response' = Rejected("follow-up limit", dynamic_limit)
                    /\ UNCHANGED <<conv_op, conv_branch>>
               ELSE /\ conv_op' = "send"
                    /\ conv_branch' = Branch(is_first_message, force_council)
                    /\ UNCHANGED conv_response
    /\ UNCHANGED conv_mode
    /\ UNCHANGED <<streamVars, stageVars, councilVars, rankVars, callVars, settingsVars>>

\* send_message from the return of its awaited model call.
SendMessageReturns ==
    /\ conv_op = "send"
    /\ \/ /\ conv_branch = "chat"
          /\ conv_messages' = add_speaker_message(conv_messages, ReplyText)
          /\ conv_response' =
                [status |-> 200, message_type |-> "speaker", mode |-> "chat",
                 remaining_messages |-> _calculate_chat_remaining(conv_messages'),
                 max_messages |-> MAX_CHAT_MESSAGES]
       \/ /\ conv_branch = "council"
          /\ \E stages \in CouncilRuns :
                conv_messages' = add_assistant_message(conv_messages, stages)
          /\ conv_response' =
                [status |-> 200, message_type |-> "council",
                 remaining_messages |-> MAX_FOLLOW_UP_MESSAGES
                     + calculate_council_output_count(conv_messages')]
       \/ /\ conv_branch = "speaker"
          /\ conv_messages' = add_speaker_message(conv_messages, ReplyText)
          /\ conv_response' =
                [status |-> 200, message_type |-> "speaker",
                 remaining_messages |->
                     Max0(MAX_FOLLOW_UP_MESSAGES
                          + calculate_council_output_count(conv_messages)
                          - Max0(UserCount(conv_messages') - 1))]
    /\ conv_op' = "idle" /\ conv_branch' = "none"
    /\ UNCHANGED <<conv_mode, conv_requests>>
    /\ UNCHANGED <<streamVars, stageVars, councilVars, rankVars, callVars, settingsVars>>

\* send_message_stream: the checks, then the stream_worker task is created.
SendMessageStream(force_council, models_valid) ==
    LET is_first_message == Len(conv_messages) = 0 IN
    /\ conv_op = "idle" /\ conv_requests < MaxRequests
    /\ conv_requests' = conv_requests + 1
    /\ IF ChatLimitReached
       THEN /\ conv_response' = Rejected("chat limit", MAX_CHAT_MESSAGES)
            /\ UNCHANGED <<conv_op, conv_branch>>
       ELSE IF is_first_message /\ ~models_valid
       THEN /\ conv_response' = Rejected("startup models", 0)
            /\ UNCHANGED <<conv_op, conv_branch>>
       ELSE /\ conv_op' = "created"
            /\ conv_branch' = Branch(is_first_message, force_council)
            /\ conv_response' = [status |-> 200, streaming |-> TRUE]
    /\ UNCHANGED <<conv_mode, conv_messages>>
    /\ UNCHANGED <<streamVars, stageVars, councilVars, rankVars, callVars, settingsVars>>

\* stream_worker from its start to its awaited model call: the user message
\* is stored.
StreamWorkerStarts ==
    /\ conv_op = "created"
    /\ conv_messages' = add_user_message(conv_messages, RequestContent)
    /\ conv_op' = "stream"
    /\ UNCHANGED <<conv_mode, conv_branch, conv_response, conv_requests>>
    /\ UNCHANGED <<streamVars, stageVars, councilVars, rankVars, callVars, settingsVars>>

\* stream_worker from the return of its awaited model call to its last event.
StreamWorkerCompletes ==
    /\ conv_op = "stream"
    /\ \/ /\ conv_branch \in {"chat", "speaker"}
          /\ conv_messages' = add_speaker_message(conv_messages, ReplyText)
       \/ /\ conv_branch = "council"
          /\ \E stages \in CouncilRuns :
                conv_messages' = add_assistant_message(conv_messages, stages)
    /\ conv_response' = [type |-> "complete"]
    /\ conv_op' = "idle" /\ conv_branch' = "none"
    /\ UNCHANGED <<conv_mode, conv_requests>>
    /\ UNCHANGED <<streamVars, stageVars, councilVars, rankVars, callVars, settingsVars>>

\* stream_worker's awaited call raises: the error event is the last one.
StreamWorkerRaises ==
    /\ conv_op = "stream"
    /\ conv_response' = [type |-> "error"]
    /\ conv_op' = "idle" /\ conv_branch' = "none"
    /\ UNCHANGED <<conv_mode, conv_messages, conv_requests>>
    /\ UNCHANGED <<streamVars, stageVars, councilVars, rankVars, callVars, settingsVars>>

\* cancel_message_stream: the task of the stream in flight is cancelled,
\* before it ran or at its awaited call.
CancelMessageStream ==
    /\ conv_op \in {"created", "stream"}
    /\ conv_response' = [status |-> 200, cancelled |-> TRUE]
    /\ conv_op' = "idle" /\ conv_branch' = "none"
    /\ UNCHANGED <<conv_mode, conv_messages, conv_requests>>
    /\ UNCHANGED <<streamVars, stageVars, councilVars, rankVars, callVars, settingsVars>>

\* retry_message up to its awaited model call.
RetryMessage ==
    LET messages == delete_last_assistant_message(conv_messages) IN
    /\ conv_op = "idle" /\ conv_requests < MaxRequests
    /\ conv_requests' = conv_requests + 1
    /\ IF conv_messages = <<>>
       THEN /\ conv_response' = Rejected("No messages to retry", 0)
            /\ UNCHANGED <<conv_messages, conv_op, conv_branch>>
       ELSE IF LastWithRole(conv_messages, "user") = 0
       THEN /\ conv_response' = Rejected("No user message to retry", 0)
            /\ UNCHANGED <<conv_messages, conv_op, conv_branch>>
       ELSE /\ conv_messages' = messages
            /\ conv_op' = "retry"
            /\ conv_branch' = IF conv_mode = "chat" THEN "chat"
                              ELSE IF UserCount(messages) = 1 THEN "council"
                              ELSE "speaker"
            /\ UNCHANGED conv_response
    /\ UNCHANGED conv_mode
    /\ UNCHANGED <<streamVars, stageVars, councilVars, rankVars, callVars, settingsVars>>

\* retry_message from the return of its awaited model call.
RetryMessageReturns ==
    /\ conv_op = "retry"
    /\ \/ /\ conv_branch = "chat"
          /\ conv_messages' = add_speaker_message(conv_messages, ReplyText)
          /\ conv_response' =
                [status |-> 200, message_type |-> "speaker", mode |-> "chat",
                 remaining_messages |-> _calculate_chat_remaining(conv_messages'),
                 max_messages |-> MAX_CHAT_MESSAGES]
       \/ /\ conv_branch = "council"
          /\ \E stages \in CouncilRuns :
                conv_messages' = add_assistant_message(conv_messages, stages)
          /\ conv_response' =
                [status |-> 200, message_type |-> "council",
                 remaining_messages |-> MAX_FOLLOW_UP_MESSAGES
                     + calculate_council_output_count(conv_messages')]
       \/ /\ conv_branch = "speaker"
          /\ conv_messages' = add_speaker_message(conv_messages, ReplyText)
          /\ conv_response' =
                [status |-> 200, message_type |-> "speaker",
                 remaining_messages |->
                     Max0(MAX_FOLLOW_UP_MESSAGES
                          + calculate_council_output_count(conv_messages')
                          - Max0(UserCount(conv_messages) - 1))]
    /\ conv_op' = "idle" /\ conv_branch' = "none"
    /\ UNCHANGED <<conv_mode, conv_requests>>
    /\ UNCHANGED <<streamVars, stageVars, councilVars, rankVars, callVars, settingsVars>>

\* get_conversation_info
GetConversationInfo ==
    /\ conv_op = "idle"
    /\ conv_response' =
          IF conv_mode = "chat"
          THEN [status |-> 200, mode |-> conv_mode,
                message_count |-> Len(conv_messages),
                user_message_count |-> UserCount(conv_messages),
                remaining_messages |-> _calculate_chat_remaining(conv_messages),
                max_messages |-> MAX_CHAT_MESSAGES]
          ELSE LET dynamic_limit == MAX_FOLLOW_UP_MESSAGES
                                    + calculate_council_output_count(conv_messages)
               IN [status |-> 200, mode |-> conv_mode,
                   message_count |-> Len(conv_messages),
                   user_message_count |-> UserCount(conv_messages),
                   remaining_messages |->
                       Max0(dynamic_limit - Max0(UserCount(conv_messages) - 1)),
                   max_follow_up_messages |-> dynamic_limit]
    /\ UNCHANGED <<conv_mode, conv_messages, conv_op, conv_branch, conv_requests>>
    /\ UNCHANGED <<streamVars, stageVars, councilVars, rankVars, callVars, settingsVars>>

ConvNext ==
    \/ \E force_council \in BOOLEAN, models_valid \in BOOLEAN :
          SendMessage(force_council, models_valid)
    \/ SendMessageReturns
    \/ \E force_council \in BOOLEAN, models_valid \in BOOLEAN :
          SendMessageStream(force_council, models_valid)
    \/ StreamWorkerStarts
    \/ StreamWorkerCompletes
    \/ StreamWorkerRaises
    \/ CancelMessageStream
    \/ RetryMessage
    \/ RetryMessageReturns
    \/ GetConversationInfo

SpecConversation == ConvInit /\ [][ConvNext]_vars

(***************************************************************************)
(* Claims about the stored conversation.                                   *)
(***************************************************************************)
ChatSend ==
    /\ conv_mode = "chat"
    /\ \E force_council \in BOOLEAN :
          \/ SendMessage(force_council, TRUE)
          \/ SendMessageStream(force_council, TRUE)

\* C25: in chat mode the maximum of user messages is 100: a send on a
\* conversation holding at most 99 user messages is accepted, a send on one
\* holding 100 is rejected with an error naming the maximum of 100, and
\* every reported max_messages is 100.
C25_ChatLimitIs100 ==
    [][/\ ChatSend =>
            /\ UserCount(conv_messages) <= 99 => conv_op' # "idle"
            /\ UserCount(conv_messages) >= 100 =>
                    conv_response' = Rejected("chat limit", 100)
       /\ "max_messages" \in DOMAIN conv_response' =>
            conv_response'.max_messages = 100]_vars

\* The same contract holds with the limit the code is configured with.
ChatLimitIsMaxChatMessages ==
    [][/\ ChatSend =>
            /\ UserCount(conv_messages) <= MAX_CHAT_MESSAGES - 1 => conv_op' # "idle"
            /\ UserCount(conv_messages) >= MAX_CHAT_MESSAGES =>
                    conv_response' = Rejected("chat limit", MAX_CHAT_MESSAGES)
       /\ "max_messages" \in DOMAIN conv_response' =>
            conv_response'.max_messages = MAX_CHAT_MESSAGES]_vars

FirstAssistant(messages) ==
    LET at == {k \in DOMAIN messages : messages[k].role = "assistant"}
    IN IF at = {} THEN 0 ELSE CHOOSE k \in at : \A j \in at : k <= j

\* C29: in a council-mode conversation the first stored assistant message is
\* a council message; no speaker reply is stored while the conversation
\* holds no council message.
C29_FirstAssistantIsCouncil ==
    (conv_mode = "council" /\ FirstAssistant(conv_messages) # 0) =>
        IsCouncil(conv_messages[FirstAssistant(conv_messages)])

\* C30: retry_message deletes the last assistant message when it is stored
\* after the conversation's last user message, and deletes nothing when the
\* last user message has no reply.
C30_RetryDeletesOnlyReply ==
    [][RetryMessage =>
        LET u == LastWithRole(conv_messages, "user")
            a == LastWithRole(conv_messages, "assistant")
        IN IF a > u THEN conv_messages' = RemoveAt(conv_messages, a)
           ELSE conv_messages' = conv_messages]_vars

\* A retry of a user message that has its reply deletes that reply only.
RetryDeletesReplyWhenStored ==
    [][(RetryMessage /\ conv_messages # <<>>
            /\ conv_messages[Len(conv_messages)].role = "assistant") =>
        conv_messages' = RemoveAt(conv_messages, Len(conv_messages))]_vars

\* C32: in a council-mode conversation the stored follow-up user messages
\* (user messages beyond the first) never exceed MAX_FOLLOW_UP_MESSAGES plus
\* the council outputs stored in the conversation.
C32_FollowUpsWithinLimit ==
    conv_mode = "council" =>
        Max0(UserCount(conv_messages) - 1)
            <= MAX_FOLLOW_UP_MESSAGES + calculate_council_output_count(conv_messages)

\* The non-streaming send starts no speaker query beyond the limit.
NoSpeakerQueryBeyondLimit ==
    (conv_mode = "council" /\ conv_op = "send" /\ conv_branch = "speaker") =>
        Max0(UserCount(conv_messages) - 1)
            <= MAX_FOLLOW_UP_MESSAGES + calculate_council_output_count(conv_messages)

LimitRejection(response) ==
    /\ "detail" \in DOMAIN response
    /\ response.detail \in {"chat limit", "follow-up limit"}

\* C33: a message the non-streaming send_message rejects because a message
\* limit is reached leaves the stored messages as they were before the call.
C33_LimitRejectionStoresNothing ==
    [][\A force_council \in BOOLEAN, models_valid \in BOOLEAN :
          (SendMessage(force_council, models_valid) /\ LimitRejection(conv_response'))
              => conv_messages' = conv_messages]_vars

\* The chat-mode limit is checked before the user message is stored.
ChatLimitRejectionStoresNothing ==
    [][\A force_council \in BOOLEAN, models_valid \in BOOLEAN :
          (SendMessage(force_council, models_valid)
              /\ "detail" \in DOMAIN conv_response'
              /\ conv_response'.detail = "chat limit")
              => conv_messages' = conv_messages]_vars

\* Model ids of the members of the run's settings listed in the member_ids
\* of the stage at position k.
OwnModelIds(k) ==
    LET stage == settings.stages[k]
    IN {settings.members[i].model_id :
            i \in {j \in 1..Len(settings.members) :
                      \E n \in 1..Len(stage.member_ids) :
                          stage.member_ids[n] = settings.members[j].id}}

\* C31: every stage of a run invokes only members listed in its own
\* member_ids and found in the run's settings; a stage whose member_ids
\* resolve to no member invokes nobody.
C31_InvokesOwnMembersOnly ==
    council_pc # "parked" =>
        \A k \in 1..Len(invoked) :
            \A j \in 1..Len(invoked[k]) : invoked[k][j] \in OwnModelIds(k)

\* A stage whose member_ids resolve to members invokes those members only.
ResolvedStageInvokesOwnMembers ==
    council_pc # "parked" =>
        \A k \in 1..Len(invoked) :
            handed[k].stage_members # <<>> =>
                \A j \in 1..Len(invoked[k]) : invoked[k][j] \in OwnModelIds(k)

\* The template with every known placeholder replaced by its value in one
\* pass: text that arrives inside a value is not looked at again.
RECURSIVE SubstituteOnce(_, _)
SubstituteOnce(text, values) ==
    IF text = <<>> THEN <<>>
    ELSE LET keys == {k \in DOMAIN TemplateKeys : Head(text) = Placeholder(TemplateKeys[k])}
         IN (IF keys = {} THEN <<Head(text)>>
             ELSE values[TemplateKeys[CHOOSE k \in keys : TRUE]])
            \o SubstituteOnce(Tail(text), values)

HoldsPlaceholder(text) ==
    \E t \in DOMAIN text, k \in DOMAIN TemplateKeys : text[t] = Placeholder(TemplateKeys[k])

\* C38: a prompt composed from a non-empty template is the template with
\* every occurrence of a known placeholder replaced by its value and all
\* other text verbatim; placeholder-like text inside a substituted value is
\* not substituted.
C38_ValuesNotSubstituted ==
    (CallReturned("_format_stage_prompt") /\ call_args.stage_prompt # <<>>) =>
        call_ret = Strip(SubstituteOnce(Strip(call_args.stage_prompt),
                        PromptValues(call_args.user_query, call_args.prior_context,
                                     call_args.template_values)))

\* The same holds when no value holds a placeholder.
PlainValuesSubstitutedOnce ==
    (CallReturned("_format_stage_prompt") /\ call_args.stage_prompt # <<>>) =>
        LET values == PromptValues(call_args.user_query, call_args.prior_context,
                                   call_args.template_values)
        IN (\A key \in DOMAIN values : ~HoldsPlaceholder(values[key])) =>
               call_ret = Strip(SubstituteOnce(Strip(call_args.stage_prompt), values))

(***************************************************************************)
(* Claims about select_messages_for_rollup.                                *)
(***************************************************************************)
\* The messages newer than the watermark, in order.
NewerThan(messages, watermark) ==
    SelectSeq(messages, LAMBDA m : watermark = <<>> \/ m.id > watermark[1])

\* Position of the n-th most recent user message of msgs (n >= 1, and msgs
\* holds at least n user messages).
NthRecentUser(msgs, n) ==
    CHOOSE k \in DOMAIN msgs :
        /\ msgs[k].role = "user"
        /\ Cardinality({j \in k..Len(msgs) : msgs[j].role = "user"}) = n

UsersIn(msgs) == Cardinality({k \in DOMAIN msgs : msgs[k].role = "user"})

\* The split and the watermark: rollup and keep concatenate to the messages
\* newer than the watermark; the watermark returned is the largest id rolled
\* up, or the one handed over when nothing is rolled up.
SplitAndWatermark ==
    LET newer == NewerThan(call_args.messages, call_args.compacted_until_message_id)
        rollup == call_ret.messages_to_rollup
    IN /\ rollup \o call_ret.messages_to_keep = newer
       /\ call_ret.next_compacted_until_message_id =
              IF rollup = <<>> THEN call_args.compacted_until_message_id
              ELSE <<MaxId(rollup)>>

\* The kept suffix for recent_turns: everything when there are at most
\* recent_turns user messages, else from the recent_turns-th most recent one.
KeptFromRecentTurn ==
    LET newer == NewerThan(call_args.messages, call_args.compacted_until_message_id)
        keep == call_ret.messages_to_keep
    IN IF UsersIn(newer) <= call_args.recent_turns
       THEN keep = newer
       ELSE keep = SubSeq(newer, NthRecentUser(newer, call_args.recent_turns), Len(newer))

\* C39 as stated: the split and the watermark, and the kept suffix starts at
\* the recent_turns-th most recent user message, everything being kept when
\* there are at most recent_turns user messages.
C39_RollupSplit ==
    CallReturned("select_messages_for_rollup") =>
        /\ SplitAndWatermark
        /\ (UsersIn(NewerThan(call_args.messages, call_args.compacted_until_message_id))
                <= call_args.recent_turns
            \/ call_args.recent_turns >= 1) => KeptFromRecentTurn

\* C39 as amended: the same for recent_turns of at least 1; with recent_turns
\* of 0 or less nothing is kept and every message newer than the watermark
\* is rolled up.
C39_RollupSplitAmended ==
    CallReturned("select_messages_for_rollup") =>
        /\ SplitAndWatermark
        /\ IF call_args.recent_turns >= 1 THEN KeptFromRecentTurn
           ELSE call_ret.messages_to_keep = <<>>

\* Four messages, the first below the watermark; of the three newer ones the
\* first is rolled up and the last user turn with its reply is kept.
C39_Witness ==
    /\ CallReturned("select_messages_for_rollup")
    /\ call_args.recent_turns = 1
    /\ call_args.compacted_until_message_id = <<1>>
    /\ Len(call_args.messages) = 4
    /\ Len(call_ret.messages_to_rollup) = 1
    /\ Len(call_ret.messages_to_keep) = 2
    /\ call_ret.messages_to_keep[1].role = "user"
    /\ call_ret.next_compacted_until_message_id # <<1>>

(***************************************************************************)
(* Council settings (backend/council_settings.py).  Settings are the       *)
(* record of their members, chairman_id and stages (no stages is <<>>)     *)
(* besides the fields the functions below hand on untouched.  A member id  *)
(* is a number, 0 for none; a stage id is a string.                        *)
(***************************************************************************)
MaxSettingsMembers == 2   \* members of the config handed to a function
MaxSettingsStages == 2    \* stages of the config handed to a function
MaxUuids == 24            \* ids uuid4 mints during one behaviour

\* uuid.uuid4() for the n-th time: an id no settings held before.
uuid4(n) == 100 + n

\* source_members.get(old_mid): the dict keeps the last member of an id.
SourceMember(members, old_mid) ==
    LET at == {i \in DOMAIN members : members[i].id = old_mid}
    IN IF at = {} THEN <<>> ELSE members[CHOOSE i \in at : \A j \in at : j <= i]

\* Mutant of ExplodeMembers: a member a stage refers to again is not copied
\* again, the stage takes the id the member has.
RECURSIVE ExplodeMembersShared(_, _, _, _, _)
ExplodeMembersShared(acc, members, old_member_ids, j, original_chairman_id) ==
    IF j > Len(old_member_ids) THEN acc
    ELSE LET old_mid == old_member_ids[j]
             source_member == SourceMember(members, old_mid)
             new_mid == uuid4(acc.minted + 1)
         IN IF source_member = <<>>
            THEN ExplodeMembersShared(acc, members, old_member_ids, j + 1,
                                      original_chairman_id)
            ELSE ExplodeMembersShared(
                     [acc EXCEPT !.minted = @ + 1,
                                 !.final_members =
                                     IF \E i \in DOMAIN @ : @[i].id = old_mid THEN @
                                     ELSE Append(@, source_member),
                                 !.new_stage_member_ids = Append(@, old_mid),
                                 !.new_chairman_id =
                                     IF old_mid = original_chairman_id /\ @ = 0
                                     THEN old_mid ELSE @],
                     members, old_member_ids, j + 1, original_chairman_id)

\* The loop over the member ids of one stage: every id that names a member
\* gets a copy of that member under a new id; the chairman is pinned to the
\* first copy made of the member chairman_id names.
RECURSIVE ExplodeMembers(_, _, _, _, _)
ExplodeMembers(acc, members, old_member_ids, j, original_chairman_id) ==
    IF j > Len(old_member_ids) THEN acc
    ELSE LET old_mid == old_member_ids[j]
             source_member == SourceMember(members, old_mid)
             new_mid == uuid4(acc.minted + 1)
         IN IF source_member = <<>>
            THEN ExplodeMembers(acc, members, old_member_ids, j + 1,
                                original_chairman_id)
            ELSE ExplodeMembers(
                     [acc EXCEPT !.minted = @ + 1,
                                 !.final_members =
                                     Append(@, [source_member EXCEPT !.id = new_mid]),
                                 !.new_stage_member_ids = Append(@, new_mid),
                                 !.new_chairman_id =
                                     IF old_mid = original_chairman_id /\ @ = 0
                                     THEN new_mid ELSE @],
                     members, old_member_ids, j + 1, original_chairman_id)

\* The loop over the stages: a new id for the stage, then its members.
RECURSIVE ExplodeStages(_, _, _, _)
ExplodeStages(acc, config, k, original_chairman_id) ==
    IF k > Len(config.stages) THEN acc
    ELSE LET stage == config.stages[k]
             inner == ExplodeMembers(
                          [acc EXCEPT !.minted = @ + 1, !.new_stage_member_ids = <<>>],
                          config.members, stage.member_ids, 1, original_chairman_id)
             new_stage == [stage EXCEPT !.id = ToString(uuid4(acc.minted + 1)),
                                        !.member_ids = inner.new_stage_member_ids]
         IN ExplodeStages([inner EXCEPT !.stages = Append(@, new_stage)],
                          config, k + 1, original_chairman_id)

\* regenerate_settings_ids up to the return, with the ids minted counted from
\* minted on; the result carries the new count.
Regenerated(config, minted) ==
    LET original_chairman_id == config.chairman_id
        exploded == ExplodeStages(
                        [final_members |-> <<>>, new_stage_member_ids |-> <<>>,
                         new_chairman_id |-> 0, minted |-> minted, stages |-> <<>>],
                        config, 1, original_chairman_id)
        chairman_source == SourceMember(config.members, original_chairman_id)
        with_chairman ==
            IF /\ original_chairman_id # 0 /\ exploded.new_chairman_id = 0
               /\ chairman_source # <<>>
            THEN [exploded EXCEPT
                     !.minted = @ + 1,
                     !.final_members =
                         Append(@, [chairman_source EXCEPT !.id = uuid4(exploded.minted + 1)]),
                     !.new_chairman_id = uuid4(exploded.minted + 1)]
            ELSE exploded
    IN [settings |->
            [config EXCEPT
                !.stages = with_chairman.stages,
                !.members = with_chairman.final_members,
                !.chairman_id =
                    IF with_chairman.new_chairman_id # 0
                    THEN with_chairman.new_chairman_id
                    ELSE IF with_chairman.final_members # <<>>
                    THEN with_chairman.final_members[1].id
                    ELSE @],
        minted |-> with_chairman.minted]

\* regenerate_settings_ids: the settings it returns.  The input is copied
\* first, so the caller's settings stay as they are.
regenerate_settings_ids(config, minted) == Regenerated(config, minted).settings

\* The words _kind_for_stage looks for in the lower-cased name of a stage.
NameWords(name) ==
    CASE name = "Final Synthesis" -> {"synthesis"}
      [] name = "Peer Rankings" -> {"ranking"}
      [] name = "Individual Responses" -> {"response"}
      [] OTHER -> {}

\* The number N of a stage id "stage-N", 0 for any other id.
StageNumber(stage_id) ==
    IF \E n \in 1..MAX_COUNCIL_STAGES : stage_id = "stage-" \o ToString(n)
    THEN CHOOSE n \in 1..MAX_COUNCIL_STAGES : stage_id = "stage-" \o ToString(n)
    ELSE 0

\* _kind_for_stage, for the stage at index (from 0) of count stages.
_kind_for_stage(stage, position, count) ==
    IF stage.kind \in {"responses", "rankings", "synthesis"} THEN stage.kind
    ELSE IF "synthesis" \in NameWords(stage.name) THEN "synthesis"
    ELSE IF "ranking" \in NameWords(stage.name) THEN "rankings"
    ELSE IF "response" \in NameWords(stage.name) THEN "responses"
    ELSE IF StageNumber(stage.id) = 2 THEN "rankings"
    ELSE IF StageNumber(stage.id) = 3 THEN "synthesis"
    ELSE IF StageNumber(stage.id) = 1 THEN "responses"
    ELSE IF position = count - 1 THEN "synthesis"
    ELSE IF position = 1 THEN "rankings"
    ELSE "responses"

\* The body of the loop over the stages, for the stage at index (from 0).
NormalisedStage(stage, position, count, member_ids) ==
    LET named == [stage EXCEPT
                     !.id = IF @ # "" THEN @ ELSE "stage-" \o ToString(position + 1),
                     !.name = IF @ # "" THEN @ ELSE "Stage " \o ToString(position + 1)]
        kind == _kind_for_stage(named, position, count)
    IN [named EXCEPT
           !.kind = kind,
           !.execution_mode =
               IF kind = "synthesis" \/ @ = "sequential" THEN "sequential"
               ELSE "parallel",
           !.member_ids =
               SelectSeq(@, LAMBDA mid : \E i \in DOMAIN member_ids : member_ids[i] = mid),
           !.prompt =
               IF @ # <<>> THEN @
               ELSE IF kind = "rankings" THEN DEFAULT_STAGE2_PROMPT
               ELSE IF kind = "synthesis" THEN DEFAULT_STAGE3_PROMPT
               ELSE @]

\* The stage appended when no stage is of kind synthesis.
AppendedSynthesis(stages, chairman_id) ==
    SettingsStage("stage-" \o ToString(Len(stages) + 1), "Final Synthesis", "synthesis",
                  DEFAULT_STAGE3_PROMPT, "sequential",
                  IF chairman_id # 0 THEN <<chairman_id>> ELSE <<>>)

\* Mutant of SynthesisLast: a synthesis stage is appended whether there is
\* one or not, and the ones there are become responses stages.
SynthesisAppendedAnew(stages, chairman_id) ==
    Append([i \in DOMAIN stages |->
               IF stages[i].kind = "synthesis"
               THEN [stages[i] EXCEPT !.kind = "responses"] ELSE stages[i]],
           AppendedSynthesis(stages, chairman_id))

\* The stages with one synthesis stage, at the end: one is appended if there
\* is none; else the last one is moved to the end and the earlier ones
\* become responses stages.
SynthesisLast(stages, chairman_id) ==
    LET synthesis_indexes == {i \in DOMAIN stages : stages[i].kind = "synthesis"}
        synthesis_index == CHOOSE i \in synthesis_indexes : \A j \in synthesis_indexes : j <= i
        demoted == [i \in DOMAIN stages |->
                       IF i \in synthesis_indexes /\ i # synthesis_index
                       THEN [stages[i] EXCEPT !.kind = "responses"] ELSE stages[i]]
    IN IF synthesis_indexes = {}
       THEN Append(stages, AppendedSynthesis(stages, chairman_id))
       ELSE Append(RemoveAt(demoted, synthesis_index), demoted[synthesis_index])

\* The member_ids of the synthesis stage: the chairman if it has none, its
\* first member if it has several.
SynthesisMembers(member_ids, chairman_id) ==
    IF member_ids = <<>>
    THEN IF chairman_id # 0 THEN <<chairman_id>> ELSE <<>>
    ELSE <<member_ids[1]>>

\* ensure_stage_config for settings that carry stages.
WithStageConfig(config) ==
    LET member_ids == IdsOf(config.members)
        chairman_id == IF config.chairman_id # 0 THEN config.chairman_id
                       ELSE IF member_ids # <<>> THEN member_ids[1] ELSE 0
        count == Len(config.stages)
        normalised == [k \in 1..count |->
                          NormalisedStage(config.stages[k], k - 1, count, member_ids)]
        ordered == SynthesisLast(normalised, chairman_id)
        last == Len(ordered)
        stages == [ordered EXCEPT
                      ![last].member_ids = SynthesisMembers(@, chairman_id)]
    IN [config EXCEPT
           !.stages = stages,
           !.chairman_id =
               IF stages[last].member_ids # <<>> THEN stages[last].member_ids[1]
               ELSE IF chairman_id # 0 THEN chairman_id ELSE @]

\* ensure_stage_config for settings without stages, before the ids are
\* regenerated: the default stages are stored in the settings handed over.
WithDefaultStages(config) ==
    [config EXCEPT !.stages = build_default_stages(config.members, config.chairman_id)]

\* ensure_stage_config: the settings it returns; minted counts the ids
\* uuid4 minted before.
ensure_stage_config(config, minted) ==
    IF config.stages # <<>> THEN WithStageConfig(config)
    ELSE regenerate_settings_ids(WithDefaultStages(config), minted)

\* The ids ensure_stage_config has minted after the call.
MintedByEnsure(config, minted) ==
    IF config.stages # <<>> THEN minted
    ELSE Regenerated(WithDefaultStages(config), minted).minted

\* What ensure_stage_config leaves in the object it was handed: the same
\* object it returns when there were stages, else the input with the default
\* stages under their old ids.
InputAfterEnsure(config) ==
    IF config.stages # <<>> THEN WithStageConfig(config)
    ELSE WithDefaultStages(config)

(***************************************************************************)
(* Settings handed to ensure_stage_config and regenerate_settings_ids.     *)
(***************************************************************************)
\* The i-th member of the settings, with a model the region allows.
SettingsMember(i) ==
    PayloadMember(i, AliasOf(i), ModelOf(((i - 1) % 2) + 1), TRUE, TRUE)

SettingsMembers(n) == [i \in 1..n |-> SettingsMember(i)]

SettingsOf(members, chairman_id, stages) ==
    [members |-> members, chairman_id |-> chairman_id, title_model_id |-> ModelOf(1),
     speaker_context_level |-> "full", stages |-> stages]

\* member_ids of a stage: up to two ids, repeated or not; an id beyond the
\* members of the settings names no member.
StageMemberIdLists == UNION {[1..n -> 1..MaxSettingsMembers] : n \in 0..2}

\* kind, name and id of a stage: the kind is given; or it is left to the
\* name, to the number of the id the stage gets, or to the position.
StageKindHints ==
    {<<"responses", "Stage", "s">>, <<"rankings", "Stage", "s">>,
     <<"synthesis", "Stage", "s">>, <<"", "Final Synthesis", "s">>,
     <<"", "", "">>, <<"", "Stage", "s">>}

\* prompt and execution_mode of a stage.
StageStyles == {<<<<>>, "">>, <<<<"custom prompt">>, "sequential">>, <<<<>>, "parallel">>}

InputStages(styles) ==
    {SettingsStage(h[3], h[2], h[1], st[1], st[2], ids) :
        h \in StageKindHints, st \in styles, ids \in StageMemberIdLists}

InputStageLists(n, styles) == UNION {[1..k -> InputStages(styles)] : k \in 0..n}

InputSettings(styles) ==
    {SettingsOf(SettingsMembers(n), c, stages) :
        n \in 0..MaxSettingsMembers, c \in 0..(MaxSettingsMembers + 1),
        stages \in InputStageLists(MaxSettingsStages, styles)}

\* A call of ensure_stage_config: what it returns and what it leaves in the
\* object it was handed.
CallEnsureStageConfig ==
    /\ call_fn = "ensure_stage_config" /\ call_pc = "call"
    /\ call_ret' = [returned |-> ensure_stage_config(call_args.settings, call_args.minted),
                    settings |-> InputAfterEnsure(call_args.settings)]
    /\ call_pc' = "returned"
    /\ UNCHANGED <<call_fn, call_args>>
    /\ UNCHANGED <<streamVars, stageVars, councilVars, rankVars, convVars, settingsVars>>

\* A call of regenerate_settings_ids: it works on a deep copy, so the object
\* it was handed is as before.
CallRegenerateSettingsIds ==
    /\ call_fn = "regenerate_settings_ids" /\ call_pc = "call"
    /\ call_ret' = [returned |-> regenerate_settings_ids(call_args.settings, call_args.minted),
                    settings |-> call_args.settings]
    /\ call_pc' = "returned"
    /\ UNCHANGED <<call_fn, call_args>>
    /\ UNCHANGED <<streamVars, stageVars, councilVars, rankVars, convVars, settingsVars>>

(***************************************************************************)
(* The stored settings: the row of the database and _SETTINGS, and the     *)
(* operations that write them.                                             *)
(***************************************************************************)
\* The settings _default_settings builds before ensure_stage_config: a
\* member per entry of COUNCIL_MODELS, the chairman the member of
\* CHAIRMAN_MODEL (the second entry).
DefaultSettings ==
    SettingsOf(SettingsMembers(MaxSettingsMembers),
               IF MaxSettingsMembers >= 2 THEN 2 ELSE 1, <<>>)

\* _default_four_member_preset: the first member is the chairman, no stages.
_default_four_member_preset == SettingsOf(SettingsMembers(MaxSettingsMembers), 1, <<>>)

\* Settings the interface sends (and presets made of them): no stages;
\* stages with kinds; stages without kinds, the last with one member;
\* stages whose chairman_id names no member; a synthesis stage of two
\* members, which the validation rejects.
SettingsRequests ==
    {SettingsOf(SettingsMembers(2), 2, <<>>),
     SettingsOf(SettingsMembers(2), 1,
                <<SettingsStage("stage-1", "Stage A", "responses", <<>>, "parallel", <<1, 2>>),
                  SettingsStage("stage-2", "Stage B", "synthesis", <<>>, "sequential", <<2>>)>>),
     SettingsOf(SettingsMembers(2), 0,
                <<SettingsStage("a", "Stage A", "", <<>>, "parallel", <<1, 2>>),
                  SettingsStage("b", "Stage B", "", <<>>, "parallel", <<1>>)>>),
     SettingsOf(SettingsMembers(1), 2,
                <<SettingsStage("stage-1", "Stage A", "rankings", <<>>, "parallel", <<1>>),
                  SettingsStage("stage-2", "Stage B", "synthesis", <<>>, "sequential", <<1>>)>>),
     SettingsOf(SettingsMembers(2), 1,
                <<SettingsStage("stage-1", "Stage A", "synthesis", <<>>, "sequential", <<1, 2>>)>>)}

Presets == {_default_four_member_preset} \cup SettingsRequests

\* _derive_chairman_id_from_stages
_derive_chairman_id_from_stages(stages, fallback_chairman_id) ==
    LET synthesis == {k \in DOMAIN stages : stages[k].kind = "synthesis"}
        first == CHOOSE k \in synthesis : \A j \in synthesis : k <= j
    IN IF synthesis # {}
       THEN IF stages[first].member_ids # <<>> THEN stages[first].member_ids[1]
            ELSE fallback_chairman_id
       ELSE IF stages # <<>> /\ stages[Len(stages)].member_ids # <<>>
       THEN stages[Len(stages)].member_ids[1]
       ELSE fallback_chairman_id

\* _load_settings_from_db: the settings it returns (and saves, if they are
\* new or changed), with the ids minted.
Loaded(row, minted) ==
    IF row = <<>>
    THEN [settings |-> ensure_stage_config(DefaultSettings, minted),
          minted |-> MintedByEnsure(DefaultSettings, minted)]
    ELSE [settings |-> ensure_stage_config(row, minted),
          minted |-> MintedByEnsure(row, minted)]

\* get_settings: _SETTINGS, loaded first if it is None.
Current == IF settings_cache # <<>>
           THEN [settings |-> settings_cache, minted |-> uuid_count]
           ELSE Loaded(settings_json, uuid_count)

SettingsStoreInit ==
    /\ settings_json = <<>> /\ settings_cache = <<>>
    /\ uuid_count = 0 /\ settings_op = "start"

\* get_settings on a process that has not loaded the settings yet.
GetSettings ==
    /\ settings_op # "parked" /\ settings_cache = <<>>
    /\ Current.minted <= MaxUuids
    /\ settings_cache' = Current.settings
    /\ settings_json' = Current.settings
    /\ uuid_count' = Current.minted
    /\ settings_op' = IF settings_json = <<>> THEN "_default_settings"
                      ELSE "_upgrade_settings"
    /\ UNCHANGED <<streamVars, stageVars, councilVars, rankVars, callVars, convVars>>

\* The process is started again: _SETTINGS is None, the row stays.
Restart ==
    /\ settings_op # "parked" /\ settings_cache # <<>>
    /\ settings_cache' = <<>>
    /\ settings_op' = "restart"
    /\ UNCHANGED <<settings_json, uuid_count>>
    /\ UNCHANGED <<streamVars, stageVars, councilVars, rankVars, callVars, convVars>>

\* POST /api/settings/council
UpdateCouncilSettings(request) ==
    /\ settings_op # "parked"
    /\ IF _validate_council_settings(request) # <<>>
       THEN /\ settings_op' = "rejected"
            /\ UNCHANGED <<settings_json, settings_cache, uuid_count>>
       ELSE LET stages == IF request.stages # <<>> THEN request.stages
                          ELSE build_default_stages(request.members, request.chairman_id)
                stored == [request EXCEPT
                                 !.stages = stages,
                                 !.chairman_id =
                                     _derive_chairman_id_from_stages(stages, request.chairman_id)]
            IN /\ settings_cache' = stored
               /\ settings_json' = stored
               /\ settings_op' = "update_council_settings"
               /\ UNCHANGED uuid_count
    /\ UNCHANGED <<streamVars, stageVars, councilVars, rankVars, callVars, convVars>>

\* POST /api/settings/council/presets/apply
ApplyCouncilPreset(preset) ==
    LET normalized == ensure_stage_config(preset, uuid_count)
        regenerated == Regenerated(normalized, MintedByEnsure(preset, uuid_count))
    IN /\ settings_op # "parked"
       /\ regenerated.minted <= MaxUuids
       /\ uuid_count' = regenerated.minted
       /\ IF _validate_council_settings(regenerated.settings) # <<>>
          THEN /\ settings_op' = "rejected"
               /\ UNCHANGED <<settings_json, settings_cache>>
          ELSE /\ settings_cache' = regenerated.settings
               /\ settings_json' = regenerated.settings
               /\ settings_op' = "apply_council_preset"
       /\ UNCHANGED <<streamVars, stageVars, councilVars, rankVars, callVars, convVars>>

\* POST /api/settings/bedrock-region
UpdateBedrockRegion ==
    LET stored == ensure_stage_config(Current.settings, Current.minted)
    IN /\ settings_op # "parked"
       /\ Current.minted <= MaxUuids
       /\ settings_cache' = stored
       /\ settings_json' = stored
       /\ uuid_count' = MintedByEnsure(Current.settings, Current.minted)
       /\ settings_op' = "update_bedrock_region"
       /\ UNCHANGED <<streamVars, stageVars, councilVars, rankVars, callVars, convVars>>

SettingsInit ==
    /\ StreamParked /\ StageParked /\ CouncilParked /\ RankParked /\ ConvParked
    /\ \/ SettingsStoreInit /\ CallParked
       \/ /\ SettingsParked
          /\ call_fn = "ensure_stage_config" /\ call_pc = "call" /\ call_ret = <<>>
          /\ \E s \in InputSettings(StageStyles) :
                 call_args = [settings |-> s, minted |-> 0]
       \/ /\ SettingsParked
          /\ call_fn = "regenerate_settings_ids" /\ call_pc = "call" /\ call_ret = <<>>
          /\ \E s \in InputSettings({<<<<>>, "">>}) :
                 call_args = [settings |-> s, minted |-> 0]

SettingsNext ==
    \/ CallEnsureStageConfig
    \/ CallRegenerateSettingsIds
    \/ GetSettings
    \/ Restart
    \/ \E request \in SettingsRequests : UpdateCouncilSettings(request)
    \/ \E preset \in Presets : ApplyCouncilPreset(preset)
    \/ UpdateBedrockRegion

SpecSettings == SettingsInit /\ [][SettingsNext]_vars

(***************************************************************************)
(* Claims about the council settings.                                      *)
(***************************************************************************)
\* The stage that synthesises: the one of kind synthesis, or the last stage
\* when the stages carry no kind.
SynthesisStagesIn(stages) ==
    LET synthesis == {k \in DOMAIN stages : stages[k].kind = "synthesis"}
    IN IF synthesis # {} THEN synthesis ELSE {Len(stages)} \cap DOMAIN stages

ChairmanIsSynthesisMember(config) ==
    /\ SynthesisStagesIn(config.stages) # {}
    /\ \A k \in SynthesisStagesIn(config.stages) :
           config.stages[k].member_ids = <<config.chairman_id>>

\* C34: after every operation that produces the stored settings, chairman_id
\* is the id of the single member of the synthesis stage.
C34_ChairmanIsSynthesisMember ==
    settings_op \in {"_default_settings", "update_council_settings",
                     "apply_council_preset", "update_bedrock_region"}
        => ChairmanIsSynthesisMember(settings_json)

\* The operations that do not end in regenerate_settings_ids leave the
\* chairman the member of the synthesis stage.
ChairmanIsSynthesisMemberUnlessRegenerated ==
    settings_op \in {"_upgrade_settings", "update_council_settings",
                     "update_bedrock_region"}
        => ChairmanIsSynthesisMember(settings_json)

MemberIdSet(config) == {config.members[i].id : i \in DOMAIN config.members}

StageShape(stages) ==
    /\ stages # <<>>
    /\ \A k \in DOMAIN stages :
           /\ stages[k].kind \in {"responses", "rankings", "synthesis"}
           /\ stages[k].execution_mode \in {"parallel", "sequential"}
           /\ stages[k].kind \in {"rankings", "synthesis"} => stages[k].prompt # <<>>
    /\ {k \in DOMAIN stages : stages[k].kind = "synthesis"} = {Len(stages)}
    /\ stages[Len(stages)].execution_mode = "sequential"
    /\ Len(stages[Len(stages)].member_ids) <= 1

\* C35: after ensure_stage_config on settings with at least one member the
\* stage list is non-empty, kinds and execution modes are the known ones,
\* one synthesis stage stands last, sequential and with at most one member,
\* rankings and synthesis stages have a prompt, and every stage member id
\* names a member.
C35_StageConfigShape ==
    (CallReturned("ensure_stage_config") /\ call_args.settings.members # <<>>) =>
        LET out == call_ret.returned
        IN /\ StageShape(out.stages)
           /\ \A k \in DOMAIN out.stages : \A j \in DOMAIN out.stages[k].member_ids :
                  out.stages[k].member_ids[j] \in MemberIdSet(out)

\* The same, but the synthesis stage may hold the chairman_id handed over
\* although no member has that id.
StageConfigShapeButChairman ==
    (CallReturned("ensure_stage_config") /\ call_args.settings.members # <<>>) =>
        LET out == call_ret.returned
        IN /\ StageShape(out.stages)
           /\ \A k \in DOMAIN out.stages : \A j \in DOMAIN out.stages[k].member_ids :
                  \/ out.stages[k].member_ids[j] \in MemberIdSet(out)
                  \/ /\ k = Len(out.stages)
                     /\ out.stages[k].member_ids[j] = call_args.settings.chairman_id

\* C36: ensure_stage_config applied to what it returned for settings with a
\* stage list returns the same settings.
C36_EnsureStageConfigIdempotent ==
    (CallReturned("ensure_stage_config") /\ call_args.settings.stages # <<>>) =>
        ensure_stage_config(call_ret.returned, call_args.minted) = call_ret.returned

\* Two synthesis stages handed over: the first comes back a responses stage
\* and the settings have changed.
C36_Witness ==
    /\ CallReturned("ensure_stage_config")
    /\ Len(call_args.settings.stages) = 2
    /\ \A k \in 1..2 : call_args.settings.stages[k].kind = "synthesis"
    /\ call_ret.returned.stages[1].kind = "responses"
    /\ call_ret.returned # call_args.settings

\* The places of the stage member ids: stage and position.
MemberPlaces(config) ==
    {<<k, j>> : k \in DOMAIN config.stages, j \in 1..2} \cap
    {p \in (DOMAIN config.stages) \X (1..2) : p[2] \in DOMAIN config.stages[p[1]].member_ids}

\* C37: regenerate_settings_ids returns settings whose stage ids and member
\* ids are none of the input, whose stage member ids are all different and
\* name exactly one member each, and leaves the settings handed over as
\* they were.
C37_FreshIdsNoAliasing ==
    CallReturned("regenerate_settings_ids") =>
        LET given == call_args.settings
            out == call_ret.returned
            old_ids == MemberIdSet(given) \cup {given.chairman_id}
                       \cup UNION {{given.stages[k].member_ids[j] : j \in DOMAIN given.stages[k].member_ids} :
                                      k \in DOMAIN given.stages}
        IN /\ \A k \in DOMAIN out.stages :
                  \A m \in DOMAIN given.stages : out.stages[k].id # given.stages[m].id
           /\ MemberIdSet(out) \cap old_ids = {}
           /\ \A p, q \in MemberPlaces(out) :
                  out.stages[p[1]].member_ids[p[2]] = out.stages[q[1]].member_ids[q[2]]
                      => p = q
           /\ \A p \in MemberPlaces(out) :
                  Cardinality({i \in DOMAIN out.members :
                                  out.members[i].id = out.stages[p[1]].member_ids[p[2]]}) = 1
           /\ call_ret.settings = given

\* One member in both stages and twice in the second: three copies come back.
C37_Witness ==
    /\ CallReturned("regenerate_settings_ids")
    /\ Len(call_args.settings.members) = 1
    /\ Len(call_args.settings.stages) = 2
    /\ call_args.settings.stages[1].member_ids = <<1>>
    /\ call_args.settings.stages[2].member_ids = <<1, 1>>
    /\ Len(call_ret.returned.members) = 3

====
